---- MODULE Spec2Model ----
(***************************************************************************)
(* kubemc: listing one kind of resource over many clusters.                *)
(*                                                                         *)
(*   src/src/discovery.rs  host key derivation, disk discovery cache       *)
(*   src/src/client.rs     per-cluster client creation and the fan-out     *)
(*   src/src/config.rs     clustersets and the active namespace            *)
(*                                                                         *)
(* A string is a sequence of one-character strings, so that replacement,   *)
(* splitting and case folding are computed character by character as the   *)
(* Rust code computes them.                                                *)
(***************************************************************************)
EXTENDS Integers, Sequences, FiniteSets, TLC

VARIABLES
    url,          \* discovery.rs: the server URL handed to parse_kube_url_to_discovery
    host_path,    \* discovery.rs:27 the Result of the derivation (None before the call)
    tree,         \* the directory home/.kube/cache/discovery/<host_path> on disk
    name,         \* discovery.rs:47 the resource name looked up
    files,        \* discovery.rs:36 the contents of the cache files that were read
    discovery,    \* discovery.rs:43 the Result of Discovery::new_from_default_cache
    found,        \* discovery.rs:47 the Result of get_resource_from_name
    pc,           \* commands.rs:59-61 where Cli::get is: in try_new, in list, returned
    home_dir,     \* discovery.rs:29 whether dirs::home_dir() is Some
    resource,     \* client.rs:29 the resource name of the invocation
    namespace,    \* client.rs:29 the namespace of the invocation
    clusters,     \* client.rs:29 the targets, in the order of the clusterset
    task,         \* client.rs:36 per target, the task running create_client
    stage,        \* per target, what each stage of its pipeline came to
    disk,         \* per target, which cache directory its create_client read
    server,       \* per target, which catalog its API server answered discovery with
    kubeclients,  \* client.rs:41 Client.kubeclients
    handles,      \* client.rs:144 per element of kubeclients, the task listing it
    lr,           \* client.rs:153 the Result that list returns (None before)
    previous,     \* what an earlier call on the same input came to
    cli,          \* commands.rs:16 the parsed command line
    config,       \* commands.rs:52 the Config that was loaded
    cli_ns,       \* commands.rs:54 ns, the namespace Cli::get passes on (None before)
    api_server,   \* client.rs:83 what the server answers a live discovery with
    live_ar_cap,  \* client.rs:88 ar_cap, Some of what resolve_api_resource returned
    mcclient,     \* client.rs:57 the Result of create_client (None before)
    ns_arg,       \* commands.rs:93 ns, the argument of the namespace command
    set_result    \* commands.rs:95 the Result of Config::set_namespace (None before)

keyVars == <<url, host_path>>
cacheVars == <<tree, name, files, discovery, found, previous>>
fanVars == <<pc, home_dir, resource, namespace, clusters, task, stage, disk, server,
             kubeclients, handles, lr>>
nsVars == <<ns_arg, set_result>>
resolveVars == <<cli, config, cli_ns, api_server, live_ar_cap, mcclient, ns_arg, set_result>>
vars == <<url, host_path, tree, name, files, discovery, found,
          pc, home_dir, resource, namespace, clusters, task, stage, disk, server,
          kubeclients, handles, lr, previous,
          cli, config, cli_ns, api_server, live_ar_cap, mcclient, ns_arg, set_result>>

\* Option and Result values.
None == [tag |-> "None"]
Some(v) == [tag |-> "Some", val |-> v]
Ok(v) == [tag |-> "Ok", val |-> v]
Err(e) == [tag |-> "Err", err |-> e]
IsOk(r) == r.tag = "Ok"

(***************************************************************************)
(* Bounds                                                                  *)
(***************************************************************************)
MaxUrlParts == 3
MaxHostLen == 2
MaxEntries == 2
MaxPermLen == 4
NumTargets == 3
MaxClustersets == 3

(***************************************************************************)
(* Strings                                                                 *)
(***************************************************************************)
LowerLetters == {"a", "b", "c", "d", "e", "f", "g", "h", "i", "j", "k", "l", "m",
                 "n", "o", "p", "q", "r", "s", "t", "u", "v", "w", "x", "y", "z"}
UpperLetters == {"A", "B", "C", "D", "E", "F", "G", "H", "I", "J", "K", "L", "M",
                 "N", "O", "P", "Q", "R", "S", "T", "U", "V", "W", "X", "Y", "Z"}
Letters == LowerLetters \cup UpperLetters
Digits == {"0", "1", "2", "3", "4", "5", "6", "7", "8", "9"}

\* All sequences over S of length at most n.
SeqUpTo(S, n) == UNION {[1..k -> S] : k \in 0..n}

RECURSIVE Concat(_)
Concat(ss) == IF ss = <<>> THEN <<>> ELSE Head(ss) \o Concat(Tail(ss))

\* str::replace(pat, to): every non-overlapping match of pat, left to right.
RECURSIVE Replace(_, _, _)
Replace(s, pat, to) ==
    IF Len(s) < Len(pat) THEN s
    ELSE IF SubSeq(s, 1, Len(pat)) = pat
         THEN to \o Replace(SubSeq(s, Len(pat) + 1, Len(s)), pat, to)
         ELSE <<Head(s)>> \o Replace(Tail(s), pat, to)

(***************************************************************************)
(* discovery.rs: parse_kube_url_to_discovery                               *)
(***************************************************************************)
Https == <<"h", "t", "t", "p", "s", ":", "/", "/">>
Http == <<"h", "t", "t", "p", ":", "/", "/">>

\* \w of the regex crate: letters, digits and the underscore.
WordChars == Letters \cup Digits \cup {"_"}

\* Variant: the class as it would be were the parentheses a group.
ReClassMutant == WordChars \cup {"/", "."}
\* The characters listed inside the negated class [^(\w/\.)]: inside a class
\* the parentheses are literal characters, not a group.
ReClass == WordChars \cup {"(", "/", ".", ")"}

\* Regex::replace_all(&hp, "_") with the class above.
ReplaceAllRe(s) == [i \in 1..Len(s) |-> IF s[i] \in ReClass THEN s[i] ELSE "_"]

\* Variant: the scheme is cut off by the length of "https://".
StripSchemesSliceMutant(u) == SubSeq(u, Len(Https) + 1, Len(u))
\* Variant: only "https://" is removed.
StripSchemesMutant(u) == Replace(u, Https, <<>>)
\* discovery.rs:63-64 replace("https://", "") then replace("http://", "")
StripSchemes(u) == Replace(Replace(u, Https, <<>>), Http, <<>>)

parse_kube_url_to_discovery(u) ==
    LET hp == Replace(StripSchemes(u), <<"/">>, <<>>)
    IN  Ok(ReplaceAllRe(hp))

(***************************************************************************)
(* discovery.rs: the disk discovery cache                                  *)
(*                                                                         *)
(* A directory is [readable, entries]: read_dir fails on a directory that  *)
(* is missing or cannot be opened, and otherwise yields the entries in the *)
(* order the operating system gives them.  An entry is one of              *)
(*   [t |-> "ioerr"]    read_dir's iterator yields Err for it              *)
(*   [t |-> "notype"]   entry.file_type() fails                            *)
(*   [t |-> "other"]    neither a directory nor a regular file             *)
(*   [t |-> "dir", dir |-> directory]                                      *)
(*   [t |-> "file", ext |-> extension, text |-> content]                   *)
(* A file's content is [c |-> "unreadable"] (read_to_string fails),        *)
(* [c |-> "garbage"] (not JSON), [c |-> "grouplist"] (JSON without the     *)
(* fields of an APIResourceList, as kubectl's servergroups.json) or        *)
(* [c |-> "list", doc |-> an APIResourceList document].                    *)
(***************************************************************************)
UpperSeq == <<"A", "B", "C", "D", "E", "F", "G", "H", "I", "J", "K", "L", "M",
              "N", "O", "P", "Q", "R", "S", "T", "U", "V", "W", "X", "Y", "Z">>
LowerSeq == <<"a", "b", "c", "d", "e", "f", "g", "h", "i", "j", "k", "l", "m",
              "n", "o", "p", "q", "r", "s", "t", "u", "v", "w", "x", "y", "z">>

\* char::to_ascii_lowercase / to_ascii_uppercase
LowerChar(c) == IF c \in UpperLetters
                THEN LowerSeq[CHOOSE i \in 1..26 : UpperSeq[i] = c] ELSE c
UpperChar(c) == IF c \in LowerLetters
                THEN UpperSeq[CHOOSE i \in 1..26 : LowerSeq[i] = c] ELSE c

\* str::to_lowercase, on the ASCII strings a discovery document carries
to_lowercase(s) == [i \in 1..Len(s) |-> LowerChar(s[i])]

\* Variant: comparison by ==.
ExactEqual(a, b) == a = b
\* str::eq_ignore_ascii_case
eq_ignore_ascii_case(a, b) ==
    /\ Len(a) = Len(b)
    /\ \A i \in 1..Len(a) : LowerChar(a[i]) = LowerChar(b[i])

\* str::split_once('/'): the parts before and after the first "/"
split_once(s) ==
    LET at == {i \in 1..Len(s) : s[i] = "/"}
    IN  IF at = {} THEN None
        ELSE LET i == CHOOSE j \in at : \A k \in at : j <= k
             IN  Some(<<SubSeq(s, 1, i - 1), SubSeq(s, i + 1, Len(s))>>)

\* discovery.rs:121 is_json
is_json(entry) == entry.ext = <<"j", "s", "o", "n">>

\* discovery.rs:95 get_cache_files: Err, or Ok of the files collected.
\* "while let Some(Ok(entry))" ends the loop at the first entry that read_dir
\* reports as an error, and "?" returns the error of a subdirectory's walk.
RECURSIVE get_cache_files(_)
RECURSIVE WalkEntries(_, _)
WalkEntries(entries, acc) ==
    IF entries = <<>> THEN Ok(acc)
    ELSE LET entry == Head(entries)
         IN  IF entry.t = "ioerr" THEN Ok(acc)
             ELSE IF entry.t = "dir"
                  THEN LET sub == get_cache_files(entry.dir)
                       IN  IF IsOk(sub) THEN WalkEntries(Tail(entries), acc \o sub.val)
                           ELSE sub
                  ELSE IF entry.t = "file" /\ is_json(entry)
                       THEN WalkEntries(Tail(entries), Append(acc, entry))
                       ELSE WalkEntries(Tail(entries), acc)
get_cache_files(dir) ==
    IF ~dir.readable THEN Err("read_dir") ELSE WalkEntries(dir.entries, <<>>)

\* discovery.rs:111 read_cache_files: the contents that could be read, in order
IsReadable(path) == path.text.c # "unreadable"
TextOf(paths) == [i \in 1..Len(paths) |-> paths[i].text]
read_cache_files(paths) == TextOf(SelectSeq(paths, IsReadable))

\* discovery.rs:140 ApiResourceList::try_from_str
try_from_str(text) ==
    IF text.c = "list" THEN Ok(text.doc) ELSE Err("failed to parse ApiResourceList")

Namespaced == "Namespaced"
Cluster == "Cluster"

\* discovery.rs:166 the strings an entry is matched by
AliasesOf(res) ==
    <<to_lowercase(res.kind), to_lowercase(res.name)>>
        \o (IF res.short_names.tag = "Some" THEN res.short_names.val ELSE <<>>)

\* Variant: the part after the first "/".
GroupOfMutant(group_version) ==
    LET g == split_once(group_version)
    IN  IF g.tag = "Some" THEN g.val[2] ELSE <<>>
\* discovery.rs:147 the group of a groupVersion: the part before the first "/"
GroupOf(group_version) ==
    LET g == split_once(group_version)
    IN  IF g.tag = "Some" THEN g.val[1] ELSE <<>>

\* discovery.rs:146 ApiResourceList::get_api_resources
get_api_resources(arl) ==
    [i \in 1..Len(arl.resources) |->
        LET res == arl.resources[i]
        IN  [kind |-> AliasesOf(res),
             api_resource |-> [group |-> GroupOf(arl.group_version),
                               version |-> arl.api_version,
                               api_version |-> arl.group_version,
                               kind |-> res.kind,
                               plural |-> res.name],
             scope |-> IF res.namespaced THEN Namespaced ELSE Cluster]]

\* Variant: the first content that fails to parse ends the read.
RECURSIVE ParseFilesMutant(_, _)
ParseFilesMutant(contents, resources) ==
    IF contents = <<>> THEN resources
    ELSE LET arl == try_from_str(Head(contents))
         IN  IF IsOk(arl)
             THEN ParseFilesMutant(Tail(contents), resources \o get_api_resources(arl.val))
             ELSE resources
\* discovery.rs:37 the loop over the file contents
RECURSIVE ParseFiles(_, _)
ParseFiles(contents, resources) ==
    IF contents = <<>> THEN resources
    ELSE LET arl == try_from_str(Head(contents))
         IN  ParseFiles(Tail(contents),
                        IF IsOk(arl) THEN resources \o get_api_resources(arl.val)
                        ELSE resources)

\* discovery.rs:25 Discovery::new_from_default_cache, on the directory that
\* home/.kube/cache/discovery/<host_path> names
new_from_default_cache(dir) ==
    LET paths == get_cache_files(dir)
    IN  IF ~IsOk(paths) THEN paths
        ELSE Ok([resources |-> ParseFiles(read_cache_files(paths.val), <<>>)])

\* discovery.rs:47 Discovery::get_resource_from_name
Matches(res, n) == \E j \in 1..Len(res.kind) : eq_ignore_ascii_case(res.kind[j], n)
\* Variant: a cache that is never consulted.
get_resource_from_nameMutant(self, n) == Err("resource not found")
\* discovery.rs:48-55 the first resource one of whose strings matches
get_resource_from_name(self, n) ==
    LET hits == {i \in 1..Len(self.resources) : Matches(self.resources[i], n)}
    IN  IF hits = {} THEN Err("resource not found")
        ELSE LET i == CHOOSE j \in hits : \A k \in hits : j <= k
             IN  Ok(<<self.resources[i].api_resource, self.resources[i].scope>>)

(***************************************************************************)
(* client.rs: cluster endpoint, live discovery, typed client               *)
(***************************************************************************)
\* The first element of seq that has the name n, as Iterator::find.
FindNamed(seq, n) ==
    LET at == {i \in 1..Len(seq) : seq[i].name = n}
    IN  IF at = {} THEN None ELSE Some(seq[CHOOSE i \in at : \A k \in at : i <= k])

\* client.rs:114 get_cluster_from_context
get_cluster_from_context(kubeconfig, ctx) ==
    LET named == FindNamed(kubeconfig.contexts, ctx)
    IN  IF named.tag = "Some" /\ named.val.context.tag = "Some"
        THEN Ok(named.val.context.val.cluster)
        ELSE Err("failed to find context in kubeconfig")

\* client.rs:124 get_server_endpoint_from_kubeconfig
get_server_endpoint_from_kubeconfig(kubeconfig, cluster_name) ==
    LET named == FindNamed(kubeconfig.clusters, cluster_name)
    IN  IF /\ named.tag = "Some"
           /\ named.val.cluster.tag = "Some"
           /\ named.val.cluster.val.server.tag = "Some"
        THEN Ok(named.val.cluster.val.server.val)
        ELSE Err("failed to get cluster endpoint")

\* Variant: the context is looked at before the cluster.
get_cluster_endpointMutant(kubeconfig, options) ==
    IF options.context.tag = "Some"
    THEN LET cluster == get_cluster_from_context(kubeconfig, options.context.val)
         IN  IF IsOk(cluster)
             THEN get_server_endpoint_from_kubeconfig(kubeconfig, cluster.val)
             ELSE cluster
    ELSE IF options.cluster.tag = "Some"
         THEN get_server_endpoint_from_kubeconfig(kubeconfig, options.cluster.val)
         ELSE Err("failed to find cluster")
\* client.rs:102 get_cluster_endpoint
get_cluster_endpoint(kubeconfig, options) ==
    IF options.cluster.tag = "Some"
    THEN get_server_endpoint_from_kubeconfig(kubeconfig, options.cluster.val)
    ELSE IF options.context.tag = "Some"
         THEN LET cluster == get_cluster_from_context(kubeconfig, options.context.val)
              IN  IF IsOk(cluster)
                  THEN get_server_endpoint_from_kubeconfig(kubeconfig, cluster.val)
                  ELSE cluster
         ELSE Err("failed to find cluster")

\* config.rs:135 From<Cluster> for KubeConfigOptions
KubeConfigOptions(c) == [context |-> c.context, cluster |-> c.cluster, user |-> c.user]

\* The byte order of the characters, for the comparison of strings (Ord for str).
AsciiOrder == <<"(", ")", "-", ".", "/">> \o <<"0", "1", "2", "3", "4", "5", "6", "7", "8", "9">>
                \o <<":">> \o UpperSeq \o <<"_">> \o LowerSeq
Code(c) == CHOOSE i \in 1..Len(AsciiOrder) : AsciiOrder[i] = c
RECURSIVE StrLess(_, _)
StrLess(a, b) ==
    IF b = <<>> THEN FALSE
    ELSE IF a = <<>> THEN TRUE
    ELSE IF Head(a) = Head(b) THEN StrLess(Tail(a), Tail(b))
    ELSE Code(Head(a)) < Code(Head(b))

\* client.rs:302-309 every (group, resource) pair, groups in the order the
\* discovery yields them, each group's resources by stability
RECURSIVE GroupResources(_)
GroupResources(groups) ==
    IF groups = <<>> THEN <<>>
    ELSE LET group == Head(groups)
         IN  [i \in 1..Len(group.resources) |-> [group |-> group.name, res |-> group.resources[i]]]
                 \o GroupResources(Tail(groups))

\* Variant: a name that begins the plural name matches too.
LiveMatchesMutant(res, n) ==
    \/ eq_ignore_ascii_case(n, res.ar.kind)
    \/ Len(n) <= Len(res.ar.plural) /\ eq_ignore_ascii_case(n, SubSeq(res.ar.plural, 1, Len(n)))
\* client.rs:313 the filter: kind or plural name, ignoring case
LiveMatches(res, n) ==
    eq_ignore_ascii_case(n, res.ar.kind) \/ eq_ignore_ascii_case(n, res.ar.plural)

\* Variant: the first match in the order of enumeration.
resolve_api_resourceMutant(kube_discovery, n) ==
    LET pairs == GroupResources(kube_discovery.groups)
        hits == {i \in 1..Len(pairs) : LiveMatches(pairs[i].res, n)}
    IN  IF hits = {} THEN None
        ELSE Some(pairs[CHOOSE j \in hits : \A k \in hits : j <= k].res)
\* client.rs:295 resolve_api_resource; min_by_key returns the first of the
\* elements whose key is least
resolve_api_resource(kube_discovery, n) ==
    LET pairs == GroupResources(kube_discovery.groups)
        hits == {i \in 1..Len(pairs) : LiveMatches(pairs[i].res, n)}
    IN  IF hits = {} THEN None
        ELSE LET least == {i \in hits : \A k \in hits : ~StrLess(pairs[k].group, pairs[i].group)}
                 i == CHOOSE j \in least : \A k \in least : j <= k
             IN  Some(pairs[i].res)

\* client.rs:174 create_typed_kubeclient: Api::all_with or Api::namespaced_with
create_typed_kubeclient(client, ar, scope, ns) ==
    IF scope = Cluster
    THEN [client |-> client, resource |-> ar, namespace |-> None]
    ELSE [client |-> client, resource |-> ar, namespace |-> Some(ns)]
(***************************************************************************)
(* config.rs: the clustersets and the active namespace                     *)
(***************************************************************************)
\* config.rs:50 active_clusterset: the first clusterset named current-clusterset
active_clusterset(self) ==
    LET named == FindNamed(self.clustersets, self.current_clusterset)
    IN  IF named.tag = "Some" THEN Ok(named.val) ELSE Err("clusterset not found")

\* config.rs:59 active_namespace
active_namespace(self) ==
    LET cs == active_clusterset(self)
    IN  IF IsOk(cs) THEN Ok(cs.val.namespace) ELSE cs

\* Variant: the namespace of the clusterset, whatever the command line gives.
GetNamespaceMutant(self, conf) == active_namespace(conf)
\* commands.rs:54-57 the namespace Cli::get hands to Client::try_new
GetNamespace(self, conf) ==
    LET active == active_namespace(conf)
    IN  IF ~IsOk(active) THEN active
        ELSE IF self.namespace.tag = "Some" THEN Ok(self.namespace.val)
        ELSE active

\* Variant: the namespace of every clusterset of that name is set.
set_namespaceMutant(self, ns_) ==
    IF \A i \in 1..Len(self.clustersets) : self.clustersets[i].name # self.current_clusterset
    THEN [self |-> self, result |-> Err("failed to find active cluster")]
    ELSE [self |-> [self EXCEPT !.clustersets =
                        [i \in 1..Len(self.clustersets) |->
                            IF self.clustersets[i].name = self.current_clusterset
                            THEN [self.clustersets[i] EXCEPT !.namespace = ns_]
                            ELSE self.clustersets[i]]],
          result |-> Ok(<<>>)]
\* config.rs:66 set_namespace: the namespace of the first clusterset named
\* current-clusterset is set and the loop is left; self is what the config
\* is after the call
set_namespace(self, ns_) ==
    LET at == {i \in 1..Len(self.clustersets) : self.clustersets[i].name = self.current_clusterset}
    IN  IF at = {} THEN [self |-> self, result |-> Err("failed to find active cluster")]
        ELSE LET first == CHOOSE i \in at : \A k \in at : i <= k
             IN  [self |-> [self EXCEPT !.clustersets[first].namespace = ns_],
                  result |-> Ok(<<>>)]
(***************************************************************************)
(* Inputs of the disk discovery cache                                      *)
(***************************************************************************)
Resource(n, k, ns, short) == [name |-> n, kind |-> k, namespaced |-> ns, short_names |-> short]
Document(gv, rs) == [kind |-> <<"A", "P", "I", "R", "e", "s", "o", "u", "r", "c", "e", "L", "i", "s", "t">>, api_version |-> <<"v", "1">>,
                     group_version |-> gv, resources |-> rs]

DocCore == Document(<<"v", "1">>,
    <<Resource(<<"p", "o", "d", "s">>, <<"P", "o", "d">>, TRUE, Some(<<<<"p", "o">>>>)),
      Resource(<<"n", "o", "d", "e", "s">>, <<"N", "o", "d", "e">>, FALSE, Some(<<<<"n", "o">>>>))>>)
DocApps == Document(<<"a", "p", "p", "s", "/", "v", "1">>,
    <<Resource(<<"d", "a", "e", "m", "o", "n", "s", "e", "t", "s">>, <<"D", "a", "e", "m", "o", "n", "S", "e", "t">>, TRUE, Some(<<<<"d", "s">>>>))>>)
DocBatch == Document(<<"b", "a", "t", "c", "h", "/", "v", "1", "b", "e", "t", "a", "1">>,
    <<Resource(<<"j", "o", "b", "s">>, <<"J", "o", "b">>, TRUE, None),
      Resource(<<"c", "r", "o", "n", "j", "o", "b", "s">>, <<"C", "r", "o", "n", "J", "o", "b">>, TRUE, Some(<<<<"c", "j">>>>))>>)
\* a second group serving the same kind, as extensions/v1beta1 once did
DocExtensions == Document(<<"e", "x", "t", "e", "n", "s", "i", "o", "n", "s", "/", "v", "1", "b", "e", "t", "a", "1">>,
    <<Resource(<<"d", "a", "e", "m", "o", "n", "s", "e", "t", "s">>, <<"D", "a", "e", "m", "o", "n", "S", "e", "t">>, TRUE, Some(<<<<"d", "s">>>>))>>)
\* a custom resource definition whose names collide with built-in ones
DocCustom == Document(<<"x", ".", "i", "o", "/", "v", "1", "/", "a">>,
    <<Resource(<<"p", "o", "d", "s">>, <<"P", "o", "d">>, FALSE, Some(<<<<"P", "O">>, <<"d", "s">>>>))>>)
Documents == {DocCore, DocApps, DocBatch, DocExtensions, DocCustom}

ListText(doc) == [c |-> "list", doc |-> doc]
Garbage == [c |-> "garbage", doc |-> <<>>]
GroupList == [c |-> "grouplist", doc |-> <<>>]
Unreadable == [c |-> "unreadable", doc |-> <<>>]
Texts == {ListText(d) : d \in Documents} \cup {Garbage, GroupList, Unreadable}

File(ext, text) == [t |-> "file", ext |-> ext, text |-> text, dir |-> <<>>]
DirEntry(dir) == [t |-> "dir", ext |-> <<>>, text |-> Garbage, dir |-> dir]
Special(t) == [t |-> t, ext |-> <<>>, text |-> Garbage, dir |-> <<>>]
Dir(entries) == [readable |-> TRUE, entries |-> entries]
\* a directory that is missing or cannot be opened
NoDir == [readable |-> FALSE, entries |-> <<>>]

JsonFiles == {File(<<"j", "s", "o", "n">>, text) : text \in Texts}
SubDirs == {NoDir,
            Dir(<<File(<<"j", "s", "o", "n">>, ListText(DocApps))>>),
            Dir(<<File(<<"j", "s", "o", "n">>, Garbage), File(<<"j", "s", "o", "n">>, ListText(DocCore))>>),
            Dir(<<DirEntry(Dir(<<File(<<"j", "s", "o", "n">>, ListText(DocExtensions))>>))>>),
            Dir(<<DirEntry(NoDir), File(<<"j", "s", "o", "n">>, ListText(DocCore))>>),
            Dir(<<Special("ioerr"), File(<<"j", "s", "o", "n">>, ListText(DocBatch))>>)}
RootEntries == JsonFiles
                 \cup {File(<<"t", "x", "t">>, ListText(DocCore)), File(<<>>, ListText(DocApps))}
                 \cup {Special("ioerr"), Special("notype"), Special("other")}
                 \cup {DirEntry(d) : d \in SubDirs}
Trees == {NoDir} \cup {Dir(es) : es \in SeqUpTo(RootEntries, MaxEntries)}

\* Every way of writing s in upper and lower case.
RECURSIVE CasePermutations(_)
CasePermutations(s) ==
    IF s = <<>> THEN {<<>>}
    ELSE {<<c>> \o rest : c \in {LowerChar(Head(s)), UpperChar(Head(s))},
                          rest \in CasePermutations(Tail(s))}
Swapped(s) == [i \in 1..Len(s) |-> IF s[i] \in UpperLetters THEN LowerChar(s[i]) ELSE UpperChar(s[i])]
UpperCased(s) == [i \in 1..Len(s) |-> UpperChar(s[i])]
\* All case permutations of a short name, four of a long one.
CaseForms(s) == IF Len(s) <= MaxPermLen THEN CasePermutations(s)
                ELSE {s, to_lowercase(s), UpperCased(s), Swapped(s)}

QueryNames == UNION {CaseForms(s) : s \in {<<"d", "s">>, <<"p", "o">>, <<"P", "o", "d">>, <<"n", "o", "d", "e", "s">>, <<"D", "a", "e", "m", "o", "n", "S", "e", "t">>, <<"j", "o", "b", "s">>, <<"c", "j">>}}
                \cup {<<"x">>, <<"v", "1">>, <<>>}

(***************************************************************************)
(* Inputs of the host key derivation                                       *)
(***************************************************************************)
UrlChars == {"a", "4", "_", ".", ":", "/", "-", "(", ")"}
UrlTokens == {Https, Http} \cup {<<c>> : c \in UrlChars}
TokenUrls == {Concat(ts) : ts \in SeqUpTo(UrlTokens, MaxUrlParts)}

HostChars == {"a", ".", "-"}
Hosts == SeqUpTo(HostChars, MaxHostLen) \ {<<>>}
Ports == {<<"4">>, <<"4", "4", "3">>}
Schemes == {Https, Http}
Slashes == {<<>>, <<"/">>}
HostUrl(sc, h, p, sl) == sc \o h \o <<":">> \o p \o sl
HostUrls == {HostUrl(sc, h, p, sl) : sc \in Schemes, h \in Hosts, p \in Ports, sl \in Slashes}

\* discovery.rs:260 the URL of the build_host_path test
ExampleUrl == Https \o <<"c", "a", "r", "s", "o", "n", ".", "c", "l", "o", "u", "d", ".",
                         "g", "r", "a", "v", "i", "t", "a", "t", "i", "o", "n", "a", "l",
                         ".", "i", "o", ":", "4", "4", "3">>
ExampleKey == <<"c", "a", "r", "s", "o", "n", ".", "c", "l", "o", "u", "d", ".",
                "g", "r", "a", "v", "i", "t", "a", "t", "i", "o", "n", "a", "l",
                ".", "i", "o", "_", "4", "4", "3">>

UrlInputs == TokenUrls \cup HostUrls \cup {ExampleUrl}

(***************************************************************************)
(* Inputs of the fan-out                                                   *)
(***************************************************************************)
Configured == 1..NumTargets
Targets == DOMAIN clusters
DigitSeq == <<"0", "1", "2", "3", "4", "5", "6", "7", "8", "9">>
ServerUrl(i) == Https \o <<"h", DigitSeq[i + 1]>> \o <<":", "4", "4", "3">>

\* The kubeconfig file: per target a cluster entry with its server and a
\* context naming it; besides, entries that lack a part.
KubeconfigFile ==
    [clusters |->
        [i \in Configured |-> [name |-> <<"k", i>>, cluster |-> Some([server |-> Some(ServerUrl(i))])]]
            \o <<[name |-> <<"bare", 0>>, cluster |-> Some([server |-> None])],
                 [name |-> <<"empty", 0>>, cluster |-> None]>>,
     contexts |->
        [i \in Configured |-> [name |-> <<"ctx", i>>,
                            context |-> Some([cluster |-> <<"k", i>>, user |-> <<"u", i>>])]]
            \o <<[name |-> <<"dangling", 0>>,
                  context |-> Some([cluster |-> <<"gone", 0>>, user |-> <<"u", 0>>])],
                 [name |-> <<"hollow", 0>>, context |-> None]>>]

\* config.rs:118 a Cluster of the clusterset
ClusterOf(i, cluster, context) ==
    [name |-> <<"cluster", i>>, cluster |-> cluster, user |-> Some(<<"u", i>>), context |-> context]
GoodCoordinates(i) ==
    IF i % 2 = 1 THEN ClusterOf(i, Some(<<"k", i>>), None)
    ELSE ClusterOf(i, None, Some(<<"ctx", i>>))
BadCoordinateKinds ==
    <<[cluster |-> None, context |-> None],
      [cluster |-> None, context |-> Some(<<"unknown", 0>>)],
      [cluster |-> Some(<<"bare", 0>>), context |-> None],
      [cluster |-> Some(<<"unknown", 0>>), context |-> Some(<<"ctx", 1>>)],
      [cluster |-> None, context |-> Some(<<"dangling", 0>>)],
      [cluster |-> None, context |-> Some(<<"hollow", 0>>)],
      [cluster |-> Some(<<"empty", 0>>), context |-> None]>>
\* The kinds are dealt to the targets in turn, from the first, fourth or
\* seventh kind on with the number of targets that have bad coordinates.
BadCoordinates(i, offset) ==
    LET kind == BadCoordinateKinds[((i + offset - 1) % Len(BadCoordinateKinds)) + 1]
    IN  ClusterOf(i, kind.cluster, kind.context)
OffsetOf(good) == 3 * (Cardinality(Configured \ good) % 3)
ClusterLists ==
    {[i \in Configured |-> IF i \in good THEN GoodCoordinates(i)
                                       ELSE BadCoordinates(i, OffsetOf(good))] :
        good \in SUBSET Configured}

\* The cache directories a target's host may have on disk; the state names
\* a directory by its place in this list.
CacheDirs == <<NoDir,
               Dir(<<DirEntry(NoDir), File(<<"j", "s", "o", "n">>, ListText(DocCore))>>),
               Dir(<<File(<<"j", "s", "o", "n">>, Garbage), File(<<"j", "s", "o", "n">>, GroupList)>>),
               Dir(<<File(<<"j", "s", "o", "n">>, ListText(DocApps))>>),
               Dir(<<File(<<"j", "s", "o", "n">>, Garbage), File(<<"j", "s", "o", "n">>, ListText(DocCore))>>)>>
FanTrees == DOMAIN CacheDirs

\* What a live server's discovery may answer: the groups in the order the
\* client yields them, each with its resources at the recommended version.
LiveResource(group, version, kind, plural, scope) ==
    [ar |-> [group |-> group, version |-> version,
             api_version |-> IF group = <<>> THEN version ELSE group \o <<"/">> \o version,
             kind |-> kind, plural |-> plural],
     caps |-> [scope |-> scope]]
GroupCore == [name |-> <<>>,
              resources |-> <<LiveResource(<<>>, <<"v", "1">>, <<"P", "o", "d">>, <<"p", "o", "d", "s">>, Namespaced),
                              LiveResource(<<>>, <<"v", "1">>, <<"N", "o", "d", "e">>, <<"n", "o", "d", "e", "s">>, Cluster)>>]
GroupApps == [name |-> <<"a", "p", "p", "s">>,
              resources |-> <<LiveResource(<<"a", "p", "p", "s">>, <<"v", "1">>, <<"D", "a", "e", "m", "o", "n", "S", "e", "t">>, <<"d", "a", "e", "m", "o", "n", "s", "e", "t", "s">>, Namespaced)>>]
GroupExtensions ==
    [name |-> <<"e", "x", "t", "e", "n", "s", "i", "o", "n", "s">>,
     resources |-> <<LiveResource(<<"e", "x", "t", "e", "n", "s", "i", "o", "n", "s">>, <<"v", "1", "b", "e", "t", "a", "1">>, <<"D", "a", "e", "m", "o", "n", "S", "e", "t">>, <<"d", "a", "e", "m", "o", "n", "s", "e", "t", "s">>, Namespaced)>>]
\* The state names an answer by its place in this list.
LiveAnswers == <<[groups |-> <<GroupExtensions, GroupCore, GroupApps>>],
                 [groups |-> <<GroupApps>>]>>
FanCatalogs == DOMAIN LiveAnswers

FanResources == {<<"P", "O", "D", "S">>}
FanNamespaces == {<<"d", "e", "f", "a", "u", "l", "t">>}

\* What the server of cluster n answers a list call with.
ObjectList(n) == <<[cluster |-> n, object |-> 1], [cluster |-> n, object |-> 2]>>
(***************************************************************************)
(* client.rs: Client::try_new and Client::list                             *)
(*                                                                         *)
(* A task runs from one .await to the next in one step.  A request that is *)
(* never answered leaves its task at the .await: the step that resumes the *)
(* task is the answer, and nothing makes it happen.                        *)
(***************************************************************************)
NoStage == "-"
NotSpawned == [pos |-> "none", discovery |-> None, client |-> None, result |-> None]
Blank == [endpoint |-> NoStage, cache |-> NoStage, connect |-> NoStage,
          live |-> NoStage, list |-> NoStage]

\* The other specifications leave the fan-out where it is.
FanIdle ==
    /\ pc = "idle"
    /\ home_dir = TRUE
    /\ resource = <<>>
    /\ namespace = <<>>
    /\ clusters = <<>>
    /\ task = <<>>
    /\ stage = <<>>
    /\ disk = <<>>
    /\ server = <<>>
    /\ kubeclients = <<>>
    /\ handles = <<>>
    /\ lr = None

\* The other specifications leave the resolution of one cluster where it is.
ResolveIdle ==
    /\ cli = [namespace |-> None]
    /\ config = [current_clusterset |-> <<>>, clustersets |-> <<>>]
    /\ cli_ns = None
    /\ api_server = [groups |-> <<>>]
    /\ live_ar_cap = None
    /\ mcclient = None
    /\ ns_arg = <<>>
    /\ set_result = None

Init ==
    /\ pc = "start"
    /\ home_dir \in BOOLEAN
    /\ resource \in FanResources
    /\ namespace \in FanNamespaces
    /\ clusters \in ClusterLists
    /\ task = [t \in Configured |-> NotSpawned]
    /\ stage = [t \in Configured |-> Blank]
    /\ disk = [t \in Configured |-> None]
    /\ server = [t \in Configured |-> None]
    /\ kubeclients = <<>>
    /\ handles = <<>>
    /\ lr = None
    /\ url = <<>>
    /\ host_path = None
    /\ tree = NoDir
    /\ name = <<>>
    /\ files = None
    /\ discovery = None
    /\ found = None
    /\ previous = None
    /\ ResolveIdle

Returned(t, r) == [pos |-> "returned", discovery |-> None, client |-> None, result |-> r]
Panicked == [pos |-> "panicked", discovery |-> None, client |-> None, result |-> None]

\* Variant: the tasks are spawned before the kubeconfig is read.
TryNewMutant ==
    /\ pc = "start"
    /\ pc' \in {"failed", "creating"}
    /\ task' = [t \in Targets |-> [NotSpawned EXCEPT !.pos = "spawned"]]
    /\ UNCHANGED <<home_dir, resource, namespace, clusters, stage, disk, server,
                   kubeclients, handles, lr, keyVars, cacheVars, resolveVars>>
\* client.rs:30-39 Kubeconfig::read()?, then one task spawned per cluster
TryNew ==
    /\ pc = "start"
    /\ \/ /\ pc' = "failed"
          /\ UNCHANGED task
       \/ /\ pc' = "creating"
          /\ task' = [t \in Targets |-> [NotSpawned EXCEPT !.pos = "spawned"]]
    /\ UNCHANGED <<home_dir, resource, namespace, clusters, stage, disk, server,
                   kubeclients, handles, lr, keyVars, cacheVars, resolveVars>>

\* client.rs:63-67 create_client up to the .await of from_custom_kubeconfig:
\* the endpoint of the cluster, then the read of its discovery cache
CreateClientStart(t) ==
    /\ pc = "creating"
    /\ task[t].pos = "spawned"
    /\ \E endpoint \in {get_cluster_endpoint(KubeconfigFile, KubeConfigOptions(clusters[t]))} :
           IF ~IsOk(endpoint)
           THEN /\ task' = [task EXCEPT ![t] = Returned(t, endpoint)]
                /\ stage' = [stage EXCEPT ![t].endpoint = "err"]
                /\ UNCHANGED disk
           ELSE IF ~home_dir
           THEN /\ task' = [task EXCEPT ![t] = Panicked]
                /\ stage' = [stage EXCEPT ![t].endpoint = "ok", ![t].cache = "panic"]
                /\ UNCHANGED disk
           ELSE \E key \in {parse_kube_url_to_discovery(endpoint.val)}, dir \in FanTrees :
                /\ IsOk(key)
                /\ disk' = [disk EXCEPT ![t] = Some(dir)]
                /\ task' = [task EXCEPT ![t].pos = "connecting",
                                        ![t].discovery = new_from_default_cache(CacheDirs[dir])]
                /\ stage' = [stage EXCEPT ![t].endpoint = "ok"]
    /\ UNCHANGED <<pc, home_dir, resource, namespace, clusters, server,
                   kubeclients, handles, lr, keyVars, cacheVars, resolveVars>>

\* client.rs:67-81 the connection is configured (or not), then the cached
\* discovery is asked for the resource; on a miss the live discovery starts
CreateClientConnected(t) ==
    /\ pc = "creating"
    /\ task[t].pos = "connecting"
    /\ \/ /\ stage' = [stage EXCEPT ![t].connect = "err"]
          /\ task' = [task EXCEPT ![t] = Returned(t, Err("connection"))]
       \/ LET cached == IF IsOk(task[t].discovery)
                        THEN get_resource_from_name(task[t].discovery.val, resource)
                        ELSE task[t].discovery
              client == [cluster |-> clusters[t].name]
          IN  IF IsOk(cached)
              THEN /\ stage' = [stage EXCEPT ![t].connect = "ok", ![t].cache = "hit"]
                   /\ task' = [task EXCEPT ![t] =
                          Returned(t, Ok(<<clusters[t].name,
                                           create_typed_kubeclient(client, cached.val[1],
                                                                   cached.val[2], namespace)>>))]
              ELSE /\ stage' = [stage EXCEPT ![t].connect = "ok", ![t].cache = "miss"]
                   /\ task' = [task EXCEPT ![t].pos = "discovering",
                                           ![t].discovery = None,
                                           ![t].client = Some(client)]
    /\ UNCHANGED <<pc, home_dir, resource, namespace, clusters, disk, server,
                   kubeclients, handles, lr, keyVars, cacheVars, resolveVars>>

\* client.rs:83-99 the live discovery answers (or not) and the resource is
\* resolved in what it answered
CreateClientDiscovered(t) ==
    /\ pc = "creating"
    /\ task[t].pos = "discovering"
    /\ \/ /\ stage' = [stage EXCEPT ![t].live = "err"]
          /\ task' = [task EXCEPT ![t] = Returned(t, Err("failed to discover api resources"))]
          /\ UNCHANGED server
       \/ \E answer \in FanCatalogs :
             LET kube_discovery == LiveAnswers[answer]
                 ar_cap == resolve_api_resource(kube_discovery, resource)
             IN  /\ server' = [server EXCEPT ![t] = Some(answer)]
                 /\ IF ar_cap.tag = "Some"
                    THEN /\ stage' = [stage EXCEPT ![t].live = "found"]
                         /\ task' = [task EXCEPT ![t] =
                                Returned(t, Ok(<<clusters[t].name,
                                                 create_typed_kubeclient(task[t].client.val,
                                                     ar_cap.val.ar, ar_cap.val.caps.scope,
                                                     namespace)>>))]
                    ELSE /\ stage' = [stage EXCEPT ![t].live = "notfound"]
                         /\ task' = [task EXCEPT ![t] =
                                Returned(t, Err("discovery of resource failed"))]
    /\ UNCHANGED <<pc, home_dir, resource, namespace, clusters, disk,
                   kubeclients, handles, lr, keyVars, cacheVars, resolveVars>>

\* Variant: a join that is ready as soon as one handle is.
JoinedMutant(tasks) == \E i \in 1..Len(tasks) : tasks[i].pos \in {"returned", "panicked"}
\* The join of a set of tasks: join_all is ready when every handle is.
Joined(tasks) == \A i \in 1..Len(tasks) : tasks[i].pos \in {"returned", "panicked"}

\* client.rs:41-48 the clients of the tasks that returned Ok, in handle order
IsCreated(h) == h.pos = "returned" /\ IsOk(h.result)
\* Variant: the caller binds the clients anew, to no namespace.
ResultOfMutant(hs) ==
    [i \in 1..Len(hs) |-> <<hs[i].result.val[1], [hs[i].result.val[2] EXCEPT !.namespace = None]>>]
ResultOf(hs) == [i \in 1..Len(hs) |-> hs[i].result.val]
\* Variant: one failed task discards every client, as try_join_all would.
CollectClientsMutant(hs) ==
    IF \E i \in 1..Len(hs) : ~IsCreated(hs[i]) THEN <<>> ELSE ResultOf(hs)
\* client.rs:41-48 Ok(Ok(mcclient)) => kubeclients.push(mcclient)
CollectClients(hs) == ResultOf(SelectSeq(hs, IsCreated))

\* Variant: try_new fails when a create_client task did.
TryNewReturnMutant ==
    /\ pc = "creating"
    /\ Joined(task)
    /\ IF \A t \in Targets : IsCreated(task[t])
       THEN kubeclients' = CollectClients(task) /\ pc' = "created"
       ELSE kubeclients' = kubeclients /\ pc' = "failed"
    /\ UNCHANGED <<home_dir, resource, namespace, clusters, task, stage, disk, server,
                   handles, lr, keyVars, cacheVars, resolveVars>>
\* client.rs:40-49 try_new returns once every create_client task has ended
TryNewReturn ==
    /\ pc = "creating"
    /\ Joined(task)
    /\ kubeclients' = CollectClients(task)
    /\ pc' = "created"
    /\ UNCHANGED <<home_dir, resource, namespace, clusters, task, stage, disk, server,
                   handles, lr, keyVars, cacheVars, resolveVars>>

\* Variant: a list task for every cluster of the clusterset.
ListMutant ==
    /\ pc = "created"
    /\ handles' = [i \in 1..Len(clusters) |->
                      [pos |-> "listing", cluster |-> clusters[i].name, response |-> None]]
    /\ pc' = "listing"
    /\ UNCHANGED <<home_dir, resource, namespace, clusters, task, stage, disk, server,
                   kubeclients, lr, keyVars, cacheVars, resolveVars>>
\* Variant: the list tasks are spawned from the last client to the first.
ListReversedMutant ==
    /\ pc = "created"
    /\ handles' = [i \in 1..Len(kubeclients) |->
                      [pos |-> "listing", cluster |-> kubeclients[Len(kubeclients) + 1 - i][1],
                       response |-> None]]
    /\ pc' = "listing"
    /\ UNCHANGED <<home_dir, resource, namespace, clusters, task, stage, disk, server,
                   kubeclients, lr, keyVars, cacheVars, resolveVars>>
\* client.rs:52, 144-150 list: one task spawned per client, each sends its
\* list request when it first runs
List ==
    /\ pc = "created"
    /\ handles' = [i \in 1..Len(kubeclients) |->
                      [pos |-> "listing", cluster |-> kubeclients[i][1], response |-> None]]
    /\ pc' = "listing"
    /\ UNCHANGED <<home_dir, resource, namespace, clusters, task, stage, disk, server,
                   kubeclients, lr, keyVars, cacheVars, resolveVars>>

TargetNamed(n) == CHOOSE t \in Targets : clusters[t].name = n

\* Variant: a list request that failed is sent again.
ListAnsweredMutant(i) ==
    /\ pc = "listing"
    /\ i \in 1..Len(handles)
    /\ handles[i].pos = "listing"
    /\ LET t == TargetNamed(handles[i].cluster)
       IN  \/ /\ stage' = [stage EXCEPT ![t].list = "err"]
              /\ UNCHANGED handles
           \/ /\ stage' = [stage EXCEPT ![t].list = "ok"]
              /\ handles' = [handles EXCEPT ![i].pos = "returned",
                                            ![i].response = Ok(ObjectList(handles[i].cluster))]
    /\ UNCHANGED <<pc, home_dir, resource, namespace, clusters, task, disk, server,
                   kubeclients, lr, keyVars, cacheVars, resolveVars>>
\* client.rs:147-148 the list request of one client is answered (or not)
ListAnswered(i) ==
    /\ pc = "listing"
    /\ i \in 1..Len(handles)
    /\ handles[i].pos = "listing"
    /\ LET t == TargetNamed(handles[i].cluster)
       IN  \/ /\ stage' = [stage EXCEPT ![t].list = "panic"]
              /\ handles' = [handles EXCEPT ![i].pos = "panicked"]
           \/ /\ stage' = [stage EXCEPT ![t].list = "err"]
              /\ handles' = [handles EXCEPT ![i].pos = "returned",
                                            ![i].response = Err("request")]
           \/ /\ stage' = [stage EXCEPT ![t].list = "ok"]
              /\ handles' = [handles EXCEPT ![i].pos = "returned",
                                            ![i].response = Ok(ObjectList(handles[i].cluster))]
    /\ UNCHANGED <<pc, home_dir, resource, namespace, clusters, task, disk, server,
                   kubeclients, lr, keyVars, cacheVars, resolveVars>>

\* client.rs:153-171 the responses of the tasks that returned Ok, in handle order
IsListed(h) == h.pos = "returned" /\ IsOk(h.response)
\* Variant: the responses in the reverse of the handle order.
ResponseOfMutant(hs) ==
    [i \in 1..Len(hs) |->
        [clustername |-> hs[Len(hs) + 1 - i].cluster,
         object_list |-> hs[Len(hs) + 1 - i].response.val]]
ResponseOf(hs) == [i \in 1..Len(hs) |->
                      [clustername |-> hs[i].cluster, object_list |-> hs[i].response.val]]
\* Variant: a response for every handle, empty for the ones that failed.
CollectResponsesMutant(hs) ==
    [i \in 1..Len(hs) |->
        [clustername |-> hs[i].cluster,
         object_list |-> IF IsListed(hs[i]) THEN hs[i].response.val ELSE <<>>]]
\* client.rs:155-160 if let Ok(object_list) = h.1 { lr.push(..) }
CollectResponses(hs) == ResponseOf(SelectSeq(hs, IsListed))

\* Variant: list returns as soon as one list task has ended.
ListReturnMutant ==
    /\ pc = "listing"
    /\ \E i \in 1..Len(handles) : handles[i].pos \in {"returned", "panicked"}
    /\ lr' = Ok(CollectResponses(handles))
    /\ pc' = "done"
    /\ UNCHANGED <<home_dir, resource, namespace, clusters, task, stage, disk, server,
                   kubeclients, handles, keyVars, cacheVars, resolveVars>>
\* client.rs:151-171 list returns once every list task has ended
ListReturn ==
    /\ pc = "listing"
    /\ Joined(handles)
    /\ lr' = Ok(CollectResponses(handles))
    /\ pc' = "done"
    /\ UNCHANGED <<home_dir, resource, namespace, clusters, task, stage, disk, server,
                   kubeclients, handles, keyVars, cacheVars, resolveVars>>

Next ==
    \/ TryNew
    \/ \E t \in Targets : CreateClientStart(t)
    \/ \E t \in Targets : CreateClientConnected(t)
    \/ \E t \in Targets : CreateClientDiscovered(t)
    \/ TryNewReturn
    \/ List
    \/ \E i \in 1..Len(handles) : ListAnswered(i)
    \/ ListReturn

Spec == Init /\ [][Next]_vars

\* The runtime runs every task that is ready and resumes the caller when its
\* join is ready; whether a request is answered is up to the network and the
\* server, so the steps that an answer resumes are not fair.
FairSpec ==
    /\ Spec
    /\ WF_vars(TryNew)
    /\ \A t \in 1..NumTargets : WF_vars(CreateClientStart(t))
    /\ WF_vars(TryNewReturn)
    /\ WF_vars(List)
    /\ WF_vars(ListReturn)

(***************************************************************************)
(* Specification of the resolution for one cluster: Cli::get chooses the   *)
(* namespace, create_client resolves the resource in the cache or in the   *)
(* live discovery and binds the client.  The connection succeeds and the   *)
(* server answers; what happens when they do not is in Spec.               *)
(***************************************************************************)
Clis == {[namespace |-> None], [namespace |-> Some(<<"p", "r", "o", "d">>)]}
ClustersetOf(n, namespace_) == [name |-> n, namespace |-> namespace_, clusters |-> <<>>]
Configs ==
    {[current_clusterset |-> current,
      clustersets |-> <<ClustersetOf(<<"d", "e", "v">>, first), ClustersetOf(<<"o", "p", "s">>, <<"k", "u", "b", "e", "-", "s", "y", "s", "t", "e", "m">>),
                        ClustersetOf(<<"d", "e", "v">>, <<"s", "h", "a", "d", "o", "w", "e", "d">>)>>] :
        current \in {<<"d", "e", "v">>, <<"o", "p", "s">>, <<"g", "o", "n", "e">>}, first \in {<<"d", "e", "f", "a", "u", "l", "t">>, <<"t", "e", "a", "m">>}}

\* Every order in which the groups of a set can be enumerated.
Orders(S) == {s \in [1..Cardinality(S) -> S] : \A i, j \in 1..Cardinality(S) : s[i] = s[j] => i = j}
Catalogs == {[groups |-> s] : s \in UNION {Orders(S) : S \in SUBSET {GroupCore, GroupApps, GroupExtensions}}}

ResolveTrees == {NoDir,
                 Dir(<<File(<<"j", "s", "o", "n">>, Garbage)>>),
                 Dir(<<File(<<"j", "s", "o", "n">>, ListText(DocCore))>>),
                 Dir(<<File(<<"j", "s", "o", "n">>, ListText(DocApps))>>),
                 Dir(<<File(<<"j", "s", "o", "n">>, ListText(DocExtensions))>>),
                 Dir(<<File(<<"j", "s", "o", "n">>, ListText(DocBatch))>>),
                 Dir(<<File(<<"j", "s", "o", "n">>, ListText(DocCustom))>>),
                 Dir(<<File(<<"j", "s", "o", "n">>, ListText(DocApps)), File(<<"j", "s", "o", "n">>, ListText(DocExtensions))>>),
                 Dir(<<File(<<"j", "s", "o", "n">>, ListText(DocExtensions)), File(<<"j", "s", "o", "n">>, ListText(DocApps))>>)}
ResolveNames == {<<"d", "a", "e", "m", "o", "n", "s", "e", "t", "s">>, <<"D", "A", "E", "M", "O", "N", "S", "E", "T">>, <<"d", "s">>, <<"P", "o", "d">>, <<"p", "o">>, <<"n", "o", "d", "e", "s">>, <<"j", "o", "b", "s">>, <<"x">>}
ClusterName == <<"c", "l", "u", "s", "t", "e", "r", "1">>

InitResolve ==
    /\ cli \in Clis
    /\ config \in Configs
    /\ resource \in ResolveNames
    /\ tree \in ResolveTrees
    /\ api_server \in Catalogs
    /\ cli_ns = None
    /\ discovery = None
    /\ found = None
    /\ live_ar_cap = None
    /\ mcclient = None
    /\ ns_arg = <<>>
    /\ set_result = None
    /\ url = <<>>
    /\ host_path = None
    /\ name = <<>>
    /\ files = None
    /\ previous = None
    /\ pc = "idle"
    /\ home_dir = TRUE
    /\ namespace = <<>>
    /\ clusters = <<>>
    /\ task = <<>>
    /\ stage = <<>>
    /\ disk = <<>>
    /\ server = <<>>
    /\ kubeclients = <<>>
    /\ handles = <<>>
    /\ lr = None

\* commands.rs:54-57 the namespace: the active clusterset's, or the one given
GetNamespaceStep ==
    /\ cli_ns = None
    /\ cli_ns' = GetNamespace(cli, config)
    /\ UNCHANGED <<cli, config, resource, tree, api_server, discovery, found, live_ar_cap, mcclient>>
    /\ UNCHANGED <<nsVars, keyVars, name, files, previous, pc, home_dir, namespace, clusters, task,
                   stage, disk, server, kubeclients, handles, lr>>

\* client.rs:66 the cache directory of the cluster is read
ReadCache ==
    /\ cli_ns # None /\ IsOk(cli_ns)
    /\ discovery = None
    /\ discovery' = new_from_default_cache(tree)
    /\ UNCHANGED <<cli, config, resource, tree, api_server, cli_ns, found, live_ar_cap, mcclient>>
    /\ UNCHANGED <<nsVars, keyVars, name, files, previous, pc, home_dir, namespace, clusters, task,
                   stage, disk, server, kubeclients, handles, lr>>

\* client.rs:72-81 the resource is looked up in the cache that was read; a
\* hit binds the client
LookupCache ==
    /\ discovery # None /\ found = None
    /\ LET cached == IF IsOk(discovery) THEN get_resource_from_name(discovery.val, resource)
                     ELSE discovery
       IN  /\ found' = cached
           /\ mcclient' = IF IsOk(cached)
                          THEN Ok(<<ClusterName,
                                    create_typed_kubeclient([cluster |-> ClusterName],
                                        cached.val[1], cached.val[2], cli_ns.val)>>)
                          ELSE mcclient
    /\ UNCHANGED <<cli, config, resource, tree, api_server, cli_ns, discovery, live_ar_cap>>
    /\ UNCHANGED <<nsVars, keyVars, name, files, previous, pc, home_dir, namespace, clusters, task,
                   stage, disk, server, kubeclients, handles, lr>>

\* client.rs:83-99 after a miss the server's discovery is asked
LiveDiscovery ==
    /\ found # None /\ ~IsOk(found)
    /\ live_ar_cap = None
    /\ LET ar_cap == resolve_api_resource(api_server, resource)
       IN  /\ live_ar_cap' = Some(ar_cap)
           /\ mcclient' = IF ar_cap.tag = "Some"
                          THEN Ok(<<ClusterName,
                                    create_typed_kubeclient([cluster |-> ClusterName],
                                        ar_cap.val.ar, ar_cap.val.caps.scope, cli_ns.val)>>)
                          ELSE Err("discovery of resource failed")
    /\ UNCHANGED <<cli, config, resource, tree, api_server, cli_ns, discovery, found>>
    /\ UNCHANGED <<nsVars, keyVars, name, files, previous, pc, home_dir, namespace, clusters, task,
                   stage, disk, server, kubeclients, handles, lr>>

NextResolve == GetNamespaceStep \/ ReadCache \/ LookupCache \/ LiveDiscovery

SpecResolve == InitResolve /\ [][NextResolve]_vars
(***************************************************************************)
(* Specification of the host key derivation                                *)
(***************************************************************************)
InitKey ==
    /\ url \in UrlInputs
    /\ host_path = None
    /\ tree = NoDir
    /\ name = <<>>
    /\ files = None
    /\ discovery = None
    /\ found = None
    /\ previous = None
    /\ FanIdle
    /\ ResolveIdle

\* discovery.rs:27 let host_path = parse_kube_url_to_discovery(url)?;
ParseUrl ==
    /\ host_path = None
    /\ host_path' = parse_kube_url_to_discovery(url)
    /\ UNCHANGED <<url, cacheVars, fanVars, resolveVars>>

\* discovery.rs:60-67 the function applied to the key it returned
ParseKeyAgain ==
    /\ IsOk(host_path) /\ previous = None
    /\ previous' = Some(host_path)
    /\ host_path' = parse_kube_url_to_discovery(host_path.val)
    /\ UNCHANGED <<url, tree, name, files, discovery, found, fanVars, resolveVars>>

NextKey == ParseUrl \/ ParseKeyAgain

SpecKey == InitKey /\ [][NextKey]_vars

(***************************************************************************)
(* Specification of the disk discovery cache                               *)
(***************************************************************************)
InitCache ==
    /\ tree \in Trees
    /\ name \in QueryNames
    /\ files = None
    /\ discovery = None
    /\ found = None
    /\ previous = None
    /\ url = <<>>
    /\ host_path = None
    /\ FanIdle
    /\ ResolveIdle

\* discovery.rs:28-36 the walk of the cache directory and the read of its files
ReadCacheFiles ==
    /\ files = None /\ discovery = None
    /\ LET paths == get_cache_files(tree)
       IN  IF IsOk(paths)
           THEN /\ files' = Ok(read_cache_files(paths.val))
                /\ UNCHANGED discovery
           ELSE /\ discovery' = paths
                /\ UNCHANGED files
    /\ UNCHANGED <<tree, name, found, previous, keyVars, fanVars, resolveVars>>

\* discovery.rs:37-44 each content is parsed, the ones that fail are dropped
ParseCacheFiles ==
    /\ IsOk(files) /\ discovery = None
    /\ discovery' = Ok([resources |-> ParseFiles(files.val, <<>>)])
    /\ UNCHANGED <<tree, name, files, found, previous, keyVars, fanVars, resolveVars>>

\* discovery.rs:47 get_resource_from_name on the cache that was read
GetResourceFromName ==
    /\ IsOk(discovery) /\ found = None
    /\ found' = get_resource_from_name(discovery.val, name)
    /\ UNCHANGED <<tree, name, files, discovery, previous, keyVars, fanVars, resolveVars>>

\* What a resolution came to: the lookup's result, or the error of the walk.
Resolving == found = None /\ (discovery = None \/ IsOk(discovery))
Outcome == IF found # None THEN found ELSE discovery

\* Variant: the second walk meets the entries of the directory in reverse.
ResolveAgainMutant ==
    /\ previous = None
    /\ ~Resolving
    /\ previous' = Some(Outcome)
    /\ tree' = [tree EXCEPT !.entries = [i \in 1..Len(tree.entries) |->
                                            tree.entries[Len(tree.entries) + 1 - i]]]
    /\ files' = None
    /\ discovery' = None
    /\ found' = None
    /\ UNCHANGED <<name, keyVars, fanVars, resolveVars>>
\* client.rs:66, 72-73 the same name is resolved once more, by a further
\* create_client that reads the same directory
ResolveAgain ==
    /\ previous = None
    /\ ~Resolving
    /\ previous' = Some(Outcome)
    /\ files' = None
    /\ discovery' = None
    /\ found' = None
    /\ UNCHANGED <<tree, name, keyVars, fanVars, resolveVars>>

NextCache == ReadCacheFiles \/ ParseCacheFiles \/ GetResourceFromName \/ ResolveAgain

SpecCache == InitCache /\ [][NextCache]_vars

(***************************************************************************)
(* Specification of the namespace command: Config::set_namespace on the    *)
(* config that was loaded.                                                 *)
(***************************************************************************)
NsMember == [name |-> <<"c", "l", "u", "s", "t", "e", "r", "1">>, cluster |-> Some(<<"k", "1">>), user |-> None, context |-> None]
NsClustersets ==
    {[name |-> <<"d", "e", "v">>, namespace |-> <<"d", "e", "f", "a", "u", "l", "t">>, clusters |-> <<NsMember>>],
     [name |-> <<"d", "e", "v">>, namespace |-> <<"t", "e", "a", "m">>, clusters |-> <<>>],
     [name |-> <<"o", "p", "s">>, namespace |-> <<"k", "u", "b", "e", "-", "s", "y", "s", "t", "e", "m">>, clusters |-> <<NsMember, NsMember>>]}
NsConfigs ==
    {[api_version |-> <<"k", "u", "b", "e", "m", "c", "/", "v", "1", "a", "l", "p", "h", "a", "1">>, current_clusterset |-> current, clustersets |-> sets] :
        current \in {<<"d", "e", "v">>, <<"o", "p", "s">>, <<"g", "o", "n", "e">>},
        sets \in SeqUpTo(NsClustersets, MaxClustersets)}
NsArgs == {<<"p", "r", "o", "d">>, <<"d", "e", "f", "a", "u", "l", "t">>}

InitNamespace ==
    /\ config \in NsConfigs
    /\ ns_arg \in NsArgs
    /\ set_result = None
    /\ cli = [namespace |-> None]
    /\ cli_ns = None
    /\ api_server = [groups |-> <<>>]
    /\ live_ar_cap = None
    /\ mcclient = None
    /\ previous = None
    /\ tree = NoDir
    /\ name = <<>>
    /\ files = None
    /\ discovery = None
    /\ found = None
    /\ url = <<>>
    /\ host_path = None
    /\ FanIdle

\* commands.rs:95 config.set_namespace(ns): config.rs:66-75
SetNamespace ==
    /\ set_result = None
    /\ previous' = Some(config)
    /\ \E after \in {set_namespace(config, ns_arg)} :
           /\ config' = after.self
           /\ set_result' = after.result
    /\ UNCHANGED <<ns_arg, cli, cli_ns, api_server, live_ar_cap, mcclient>>
    /\ UNCHANGED <<keyVars, tree, name, files, discovery, found, fanVars>>

NextNamespace == SetNamespace

SpecNamespace == InitNamespace /\ [][NextNamespace]_vars

(***************************************************************************)
(* Host key derivation: claims                                             *)
(***************************************************************************)
KeyDone == IsOk(host_path)

StripLeadingScheme(u) ==
    IF Len(u) >= Len(Https) /\ SubSeq(u, 1, Len(Https)) = Https
    THEN SubSeq(u, Len(Https) + 1, Len(u))
    ELSE IF Len(u) >= Len(Http) /\ SubSeq(u, 1, Len(Http)) = Http
         THEN SubSeq(u, Len(Http) + 1, Len(u))
         ELSE u
NotSlash(c) == c # "/"
MapOutside(s, keep) == [i \in 1..Len(s) |-> IF s[i] \in keep THEN s[i] ELSE "_"]
CharsOf(s) == {s[i] : i \in 1..Len(s)}

\* The rule as the specification words it.
StatedKeyChars == Letters \cup Digits \cup {"_", "."}
StatedRule(u) == MapOutside(SelectSeq(StripLeadingScheme(u), NotSlash), StatedKeyChars)

\* The rule with both parentheses among the characters that are kept, and
\* with the scheme removed wherever it occurs ("https://" first).
RECURSIVE DropAll(_, _)
DropAll(s, pat) ==
    LET starts == {i \in 1..(Len(s) - Len(pat) + 1) : SubSeq(s, i, i + Len(pat) - 1) = pat}
    IN  IF starts = {} THEN s
        ELSE LET i == CHOOSE j \in starts : \A k \in starts : j <= k
             IN  SubSeq(s, 1, i - 1) \o DropAll(SubSeq(s, i + Len(pat), Len(s)), pat)
KeptKeyChars == StatedKeyChars \cup {"(", ")"}
KeptRule(u) == MapOutside(SelectSeq(DropAll(DropAll(u, Https), Http), NotSlash), KeptKeyChars)

\* C9 (as stated): the derived key equals the stated rule (leading scheme
\* removed, every "/" deleted, every character other than a letter, digit,
\* underscore or dot replaced by "_") and holds only such characters.
C9_StatedRule ==
    KeyDone => /\ host_path.val = StatedRule(url)
               /\ CharsOf(host_path.val) \subseteq StatedKeyChars

\* C9 (amended): the derived key is the URL with every "https://" and then
\* every "http://" removed, every "/" deleted and every character other than
\* a letter, digit, underscore, dot, "(" or ")" replaced by "_"; every
\* character of the key is one of those; the test URL gives the test's key.
C9_KeyRule ==
    KeyDone => /\ host_path.val = KeptRule(url)
               /\ CharsOf(host_path.val) \subseteq KeptKeyChars
               /\ (url = ExampleUrl => host_path.val = ExampleKey)

C9_Witness ==
    /\ KeyDone
    /\ url = Https \o <<"(", ":">>
    /\ host_path = Ok(<<"(", "_">>)

\* C10 (as stated): scheme://host:port, with or without a trailing slash
\* and for either scheme, derives host, "_", port.
C10_HostPortLiteral ==
    \A sc \in Schemes, h \in Hosts, p \in Ports, sl \in Slashes :
        (KeyDone /\ url = HostUrl(sc, h, p, sl)) => host_path.val = h \o <<"_">> \o p

\* C10 (amended): scheme://host:port, with or without a trailing slash and
\* for either scheme, derives the same key: the host with every character
\* other than a letter, digit, underscore, dot or parenthesis replaced by
\* "_", then "_", then the port.
C10_SchemeAndSlashIgnored ==
    \A sc \in Schemes, h \in Hosts, p \in Ports, sl \in Slashes :
        (KeyDone /\ url = HostUrl(sc, h, p, sl))
            => host_path.val = MapOutside(h, KeptKeyChars) \o <<"_">> \o p

C10_Witness ==
    /\ url = HostUrl(Http, <<"a", ".">>, <<"4", "4", "3">>, <<>>)
    /\ host_path = Ok(<<"a", ".", "_", "4", "4", "3">>)

(***************************************************************************)
(* Disk discovery cache: claims                                            *)
(***************************************************************************)
\* The resource entries of the listings that parsed, in read order, each with
\* the groupVersion of its listing.
RECURSIVE ListedEntries(_)
ListedEntries(contents) ==
    IF contents = <<>> THEN <<>>
    ELSE LET text == Head(contents)
         IN  (IF text.c = "list"
              THEN [i \in 1..Len(text.doc.resources) |->
                       [gv |-> text.doc.group_version, entry |-> text.doc.resources[i]]]
              ELSE <<>>) \o ListedEntries(Tail(contents))

ShortNamesOf(entry) ==
    IF entry.short_names.tag = "Some"
    THEN {entry.short_names.val[i] : i \in 1..Len(entry.short_names.val)} ELSE {}
\* n equals, ignoring case, the entry's kind, plural name or one of its short names
NamedBy(entry, n) ==
    UpperCased(n) \in {UpperCased(a) : a \in {entry.kind, entry.name} \cup ShortNamesOf(entry)}

BeforeFirstSlash(s) ==
    IF "/" \notin CharsOf(s) THEN <<>>
    ELSE SubSeq(s, 1, (CHOOSE i \in 1..Len(s) : s[i] = "/" /\ \A k \in 1..(i - 1) : s[k] # "/") - 1)

Looked == IsOk(files) /\ IsOk(discovery) /\ found # None

\* C7: when the cache holds an alias (kind, plural name or short name) for
\* the name, the lookup succeeds, and the lookup of every case permutation
\* of the name returns the identical descriptor and scope.
C7_CasePermutationsAgree ==
    Looked =>
        /\ (\E i \in 1..Len(ListedEntries(files.val)) :
                NamedBy(ListedEntries(files.val)[i].entry, name)) => IsOk(found)
        /\ \A n \in CaseForms(name) : get_resource_from_name(discovery.val, n) = found

C7_Witness ==
    /\ Looked
    /\ name = <<"d", "S">>
    /\ IsOk(found)
    /\ found.val[1].kind = <<"D", "a", "e", "m", "o", "n", "S", "e", "t">>

\* C8: the lookup returns the descriptor (group = the part of groupVersion
\* before its first "/", empty if none; kind; plural name) of the first entry
\* in read order that the name equals, ignoring case, by kind, plural name or
\* short name; the scope is namespaced exactly when the entry's namespaced
\* flag is true; and the lookup fails when no entry matches.
C8_FirstMatchingEntry ==
    Looked =>
        LET entries == ListedEntries(files.val)
            hits == {i \in 1..Len(entries) : NamedBy(entries[i].entry, name)}
        IN  IF hits = {} THEN ~IsOk(found)
            ELSE LET e == entries[CHOOSE i \in hits : \A k \in hits : i <= k]
                 IN  /\ IsOk(found)
                     /\ found.val[1].group = BeforeFirstSlash(e.gv)
                     /\ found.val[1].kind = e.entry.kind
                     /\ found.val[1].plural = e.entry.name
                     /\ (found.val[2] = Namespaced) = e.entry.namespaced
                     /\ found.val[2] \in {Namespaced, Cluster}

C8_Witness ==
    /\ Looked
    /\ name = <<"d", "s">>
    /\ files.val = <<ListText(DocApps), ListText(DocCustom)>>
    /\ found.val[1].kind = <<"D", "a", "e", "m", "o", "n", "S", "e", "t">>
    /\ found.val[1].group = <<"a", "p", "p", "s">>
    /\ found.val[2] = Namespaced
(***************************************************************************)
(* The fan-out: Client::try_new followed by Client::list                   *)
(***************************************************************************)
NameOf(t) == clusters[t].name
DirOf(t) == CacheDirs[disk[t].val]
CatalogOf(t) == LiveAnswers[server[t].val]

\* What the stages of target t came to.
Resolved(t) == stage[t].cache = "hit" \/ stage[t].live = "found"
EveryStageSucceeded(t) ==
    /\ stage[t].endpoint = "ok"
    /\ stage[t].connect = "ok"
    /\ Resolved(t)
    /\ stage[t].list = "ok"
StageFailed(t) ==
    \/ stage[t].endpoint = "err"
    \/ stage[t].cache = "panic"
    \/ stage[t].connect = "err"
    \/ stage[t].live \in {"err", "notfound"}
    \/ stage[t].list \in {"err", "panic"}
FailedTargets == {t \in Targets : StageFailed(t)}
EntriesOf(t) == {i \in 1..Len(lr.val) : lr.val[i].clustername = NameOf(t)}

\* C1: when try_new and list have returned, every target has either passed
\* every stage or failed one; the result holds exactly one ListResponse for
\* each target that passed every stage and none for a target that failed one,
\* so it has K - M entries when M of the K targets failed.
C1_ExactlyKMinusM ==
    pc = "done" =>
        /\ IsOk(lr)
        /\ \A t \in Targets :
              /\ EveryStageSucceeded(t) # StageFailed(t)
              /\ Cardinality(EntriesOf(t)) = IF EveryStageSucceeded(t) THEN 1 ELSE 0
        /\ Len(lr.val) = Len(clusters) - Cardinality(FailedTargets)

\* Three targets, the first fails in live discovery, the last in its list call.
C1_Witness ==
    /\ pc = "done"
    /\ Len(clusters) = 3
    /\ stage[1].live = "notfound"
    /\ EveryStageSucceeded(2)
    /\ stage[3].list = "err"
    /\ Len(lr.val) = 1

\* C2: what a target comes to depends on its own stages only.  Its
\* create_client task returns Ok exactly when its own endpoint, connection and
\* resolution succeeded; it is among the clients exactly when its task
\* returned Ok; its part of the result is its own object list when its own
\* stages all succeeded and nothing otherwise, whatever its siblings came to;
\* and the call has failed only if no task was ever spawned.
C2_OwnStagesOnly ==
    /\ pc = "failed" => \A t \in Targets : task[t].pos = "none"
    /\ \A t \in Targets :
          LET Mine(e) == e.clustername = NameOf(t)
              Client(c) == c[1] = NameOf(t)
          IN  /\ task[t].pos = "returned" =>
                    (IsOk(task[t].result) <=>
                        stage[t].endpoint = "ok" /\ stage[t].connect = "ok" /\ Resolved(t))
              /\ pc \in {"created", "listing", "done"} =>
                    (SelectSeq(kubeclients, Client) # <<>> <=> IsCreated(task[t]))
              /\ pc = "done" =>
                    SelectSeq(lr.val, Mine) =
                        IF EveryStageSucceeded(t)
                        THEN <<[clustername |-> NameOf(t), object_list |-> ObjectList(NameOf(t))]>>
                        ELSE <<>>

\* Targets A, B, C where B's connection fails: the result holds A's and C's.
C2_Witness ==
    /\ pc = "done"
    /\ Len(clusters) = 3
    /\ stage[2].connect = "err"
    /\ lr = Ok(<<[clustername |-> NameOf(1), object_list |-> ObjectList(NameOf(1))],
                 [clustername |-> NameOf(3), object_list |-> ObjectList(NameOf(3))]>>)

\* The failure modes of a cache directory, read off the directory itself.
CacheMissing(dir) == ~dir.readable
SubdirUnreadable(dir) ==
    dir.readable /\ \E i \in 1..Len(dir.entries) :
        dir.entries[i].t = "dir" /\ ~dir.entries[i].dir.readable
AllMalformed(dir) ==
    dir.readable /\ \A i \in 1..Len(dir.entries) :
        dir.entries[i].t = "file" /\ dir.entries[i].text.c # "list"
NoAliasMatch(dir, n) ==
    dir.readable /\ \A i \in 1..Len(dir.entries) :
        /\ dir.entries[i].t = "file"
        /\ dir.entries[i].text.c = "list" =>
              \A j \in 1..Len(dir.entries[i].text.doc.resources) :
                 LET aliases == AliasesOf(dir.entries[i].text.doc.resources[j])
                 IN  \A k \in 1..Len(aliases) : ~eq_ignore_ascii_case(aliases[k], n)
CacheFailure(dir, n) ==
    CacheMissing(dir) \/ SubdirUnreadable(dir) \/ AllMalformed(dir) \/ NoAliasMatch(dir, n)
NoLiveMatch(catalog, n) ==
    \A g \in 1..Len(catalog.groups) : \A j \in 1..Len(catalog.groups[g].resources) :
        LET ar == catalog.groups[g].resources[j].ar
        IN  ~eq_ignore_ascii_case(n, ar.kind) /\ ~eq_ignore_ascii_case(n, ar.plural)
LiveAttempted(t) == task[t].pos = "discovering" \/ stage[t].live # NoStage

\* C3: create_client asks the live discovery only when the cache directory it
\* read is missing, has an unreadable subdirectory, holds only malformed files
\* or holds no alias matching the name; in each of these cases, once the
\* connection is configured, the live discovery is asked; a cache hit asks no
\* server; and the task returns resource-not-found only after a live
\* discovery whose answer has no resource of that kind or plural name.
C3_CacheThenLive ==
    \A t \in Targets :
        /\ LiveAttempted(t) =>
              disk[t].tag = "Some" /\ CacheFailure(DirOf(t), resource)
        /\ (stage[t].connect = "ok" /\ CacheFailure(DirOf(t), resource)) =>
              LiveAttempted(t)
        /\ stage[t].cache = "hit" => ~LiveAttempted(t) /\ server[t] = None
        /\ (task[t].pos = "returned" /\ task[t].result = Err("discovery of resource failed")) =>
              /\ LiveAttempted(t)
              /\ server[t].tag = "Some"
              /\ NoLiveMatch(CatalogOf(t), resource)

\* A missing directory, an unreadable subdirectory and a directory of
\* malformed files: each target went on to the live discovery.
C3_Witness ==
    /\ Len(clusters) = 3
    /\ disk[1].tag = "Some" /\ CacheMissing(DirOf(1))
    /\ stage[1].live = "found" /\ IsCreated(task[1])
    /\ disk[2].tag = "Some" /\ SubdirUnreadable(DirOf(2))
    /\ stage[2].live = "notfound"
    /\ disk[3].tag = "Some" /\ AllMalformed(DirOf(3))
    /\ task[3].pos = "discovering"

Running(s) == task[s].pos \in {"spawned", "connecting", "discovering"}
ListIssued(t) == \E i \in 1..Len(handles) : handles[i].cluster = NameOf(t)

C5_CallCompletes == <>(pc \in {"done", "failed"})

AllFailed == \A t \in Targets : StageFailed(t)

\* C6: the call fails only on the kubeconfig read, before any task is
\* spawned; when no create_client task returned Ok, try_new returns a Client
\* without clients; and when every target failed a stage, list returns Ok of
\* the empty sequence.
C6_AllFailIsOkEmpty ==
    /\ pc = "failed" => \A t \in Targets : stage[t] = Blank
    /\ (pc \in {"created", "listing", "done"} /\ \A t \in Targets : ~IsCreated(task[t])) =>
          kubeclients = <<>>
    /\ (pc = "done" /\ AllFailed) => lr = Ok(<<>>)

\* One target fails its connection, one its resolution, one its list call.
C6_Witness ==
    /\ pc = "done"
    /\ Len(clusters) = 3
    /\ stage[1].connect = "err"
    /\ stage[2].live = "notfound"
    /\ stage[3].list = "err"
    /\ lr = Ok(<<>>)
(***************************************************************************)
(* Disk discovery cache: the walk and the read of the files                *)
(***************************************************************************)
\* The .json files of a directory tree, in walk order, leaving out the
\* entries that cannot be read and the subdirectories that cannot be listed.
RECURSIVE JsonOf(_)
RECURSIVE JsonOfEntries(_)
JsonOfEntries(entries) ==
    IF entries = <<>> THEN <<>>
    ELSE LET entry == Head(entries)
         IN  (IF entry.t = "dir" THEN JsonOf(entry.dir)
              ELSE IF entry.t = "file" /\ entry.ext = <<"j", "s", "o", "n">> THEN <<entry>>
              ELSE <<>>) \o JsonOfEntries(Tail(entries))
JsonOf(dir) == IF dir.readable THEN JsonOfEntries(dir.entries) ELSE <<>>
HasContent(path) == path.text.c # "unreadable"
Walked == files # None \/ discovery # None

\* C11 as stated: the walk of a directory that can be listed does not fail,
\* and collects every .json file of the tree but those under entries that
\* cannot be read and subdirectories that cannot be listed.
C11_SkipAndContinue ==
    (tree.readable /\ Walked) =>
        /\ IsOk(files)
        /\ files.val = TextOf(SelectSeq(JsonOf(tree), HasContent))

DefinedIn(paths, n) ==
    \E i \in 1..Len(paths) :
        /\ paths[i].text.c = "list"
        /\ \E j \in 1..Len(paths[i].text.doc.resources) :
              NamedBy(paths[i].text.doc.resources[j], n)

\* C12: when the walk of the cache directory succeeds, no file that cannot be
\* read or does not parse makes the cache read fail, and a name defined in a
\* file that does parse resolves, wherever that file stands among the others.
C12_MalformedSkipped ==
    LET paths == get_cache_files(tree)
    IN  IsOk(paths) =>
            /\ Walked => IsOk(files)
            /\ discovery # None => IsOk(discovery)
            /\ (found # None /\ DefinedIn(paths.val, name)) => IsOk(found)

\* An unparsable file and, after it, a valid file defining Pod: "pod" resolves.
C12_Witness ==
    /\ tree = Dir(<<File(<<"j", "s", "o", "n">>, Garbage), File(<<"j", "s", "o", "n">>, ListText(DocCore))>>)
    /\ name = <<"p", "o", "d">>
    /\ IsOk(found)
    /\ found.val[1].kind = <<"P", "o", "d">>

LiveAsked == live_ar_cap # None
GroupMatches(group, n) ==
    \E j \in 1..Len(group.resources) :
        \/ eq_ignore_ascii_case(n, group.resources[j].ar.kind)
        \/ eq_ignore_ascii_case(n, group.resources[j].ar.plural)
MatchingGroups(groups, n) == {g \in 1..Len(groups) : GroupMatches(groups[g], n)}
SameGroups(a, b) == {a.groups[i] : i \in 1..Len(a.groups)} = {b.groups[i] : i \in 1..Len(b.groups)}

\* C13: the live resolution returns a resource of the matching group whose
\* name is lexicographically smallest, the same for every order in which the
\* groups are enumerated, and none exactly when no group has a resource whose
\* kind or plural name is the name.
C13_SmallestGroup ==
    LiveAsked =>
        LET groups == api_server.groups
            hits == MatchingGroups(groups, resource)
        IN  /\ hits = {} <=> live_ar_cap.val = None
            /\ hits # {} =>
                  \E g \in hits :
                     /\ \A h \in hits \ {g} : StrLess(groups[g].name, groups[h].name)
                     /\ \E j \in 1..Len(groups[g].resources) :
                           live_ar_cap.val = Some(groups[g].resources[j])
            /\ \A other \in Catalogs :
                  SameGroups(other, api_server) =>
                      resolve_api_resource(other, resource) = live_ar_cap.val

\* DaemonSet is served by extensions and by apps, extensions enumerated first.
C13_Witness ==
    /\ api_server.groups = <<GroupExtensions, GroupCore, GroupApps>>
    /\ resource = <<"D", "A", "E", "M", "O", "N", "S", "E", "T">>
    /\ live_ar_cap = Some(Some(GroupApps.resources[1]))

\* The resources a cluster may define: those of the discovery documents.
Defined == UNION {{d.resources[j] : j \in 1..Len(d.resources)} : d \in Documents}
IsShortNameOf(n, res) ==
    /\ res.short_names.tag = "Some"
    /\ \E k \in 1..Len(res.short_names.val) : eq_ignore_ascii_case(res.short_names.val[k], n)
ShortNameOnly(n) ==
    /\ \E res \in Defined : IsShortNameOf(n, res)
    /\ \A res \in Defined : ~eq_ignore_ascii_case(n, res.kind) /\ ~eq_ignore_ascii_case(n, res.name)
CacheResolves(dir, n) ==
    LET read == new_from_default_cache(dir)
    IN  IsOk(read) /\ IsOk(get_resource_from_name(read.val, n))

\* C14: what the live discovery resolves has the name as its kind or its
\* plural name, ignoring case; for a name that is only a short name the live
\* discovery resolves nothing and create_client returns resource-not-found,
\* although a cache directory holding the resource's document resolves it.
C14_LiveKindOrPluralOnly ==
    LiveAsked =>
        /\ live_ar_cap.val.tag = "Some" =>
              \/ eq_ignore_ascii_case(resource, live_ar_cap.val.val.ar.kind)
              \/ eq_ignore_ascii_case(resource, live_ar_cap.val.val.ar.plural)
        /\ ShortNameOnly(resource) =>
              /\ live_ar_cap.val = None
              /\ mcclient = Err("discovery of resource failed")
              /\ \E dir \in ResolveTrees : CacheResolves(dir, resource)

\* No cache directory, "ds" asked of a server that serves apps/daemonsets.
C14_Witness ==
    /\ tree = NoDir
    /\ resource = <<"d", "s">>
    /\ api_server.groups = <<GroupApps>>
    /\ mcclient = Err("discovery of resource failed")

\* A cache is stale for a name when it holds an entry for the name and the
\* server serves no such resource, or serves it in another group, at another
\* group version or with another scope.
CachedEntry(dir, n) ==
    LET read == new_from_default_cache(dir)
    IN  IF IsOk(read) THEN get_resource_from_name(read.val, n) ELSE read
Exposed(ar, scope) ==
    [group |-> ar.group, api_version |-> ar.api_version, kind |-> ar.kind,
     plural |-> ar.plural, scope |-> scope]
Stale(dir, n, served) ==
    LET cached == CachedEntry(dir, n)
        live == resolve_api_resource(served, n)
    IN  /\ IsOk(cached)
        /\ \/ live = None
           \/ /\ live # None
              /\ Exposed(cached.val[1], cached.val[2]) # Exposed(live.val.ar, live.val.caps.scope)

\* C15 as stated: with a stale cache create_client asks the live discovery
\* and does not bind the client to the cached descriptor.
C15_StaleFallsBack ==
    (Stale(tree, resource, api_server) /\ mcclient # None) =>
        /\ LiveAsked
        /\ ~(IsOk(mcclient) /\ mcclient.val[2].resource = CachedEntry(tree, resource).val[1])

\* The scope create_client resolved: the cache's on a hit, else the server's.
ResolvedScope == IF IsOk(found) THEN found.val[2] ELSE live_ar_cap.val.val.caps.scope
IsActive(i) ==
    /\ config.clustersets[i].name = config.current_clusterset
    /\ \A j \in 1..(i - 1) : config.clustersets[j].name # config.current_clusterset

\* C17: the client of a cluster-scoped resource is bound to no namespace,
\* whatever namespace was given; the client of a namespaced resource is bound
\* to the namespace of the command line when one was given, and else to the
\* namespace of the active clusterset.
C17_BoundByScope ==
    (mcclient # None /\ IsOk(mcclient)) =>
        LET api == mcclient.val[2]
        IN  /\ ResolvedScope = Cluster => api.namespace = None
            /\ ResolvedScope = Namespaced =>
                  IF cli.namespace # None
                  THEN api.namespace = Some(cli.namespace.val)
                  ELSE \E i \in 1..Len(config.clustersets) :
                          IsActive(i) /\ api.namespace = Some(config.clustersets[i].namespace)

\* --namespace prod beside an active clusterset whose namespace is team.
C17_Witness ==
    /\ cli.namespace = Some(<<"p", "r", "o", "d">>)
    /\ config.current_clusterset = <<"d", "e", "v">>
    /\ config.clustersets[1].namespace = <<"t", "e", "a", "m">>
    /\ resource = <<"d", "a", "e", "m", "o", "n", "s", "e", "t", "s">>
    /\ IsOk(mcclient)
    /\ mcclient.val[2].namespace = Some(<<"p", "r", "o", "d">>)

(***************************************************************************)
(* The fan-out: order, coordinates and the stages of a target              *)
(***************************************************************************)
Answered(i) == pc = "listing" /\ i <= Len(handles) /\ IsListed(handles[i])
Waiting(i) == pc = "listing" /\ i <= Len(handles) /\ handles[i].pos = "listing"
PlaceOf(n) == CHOOSE k \in 1..Len(lr.val) : lr.val[k].clustername = n
BothListed(i, j) ==
    /\ pc = "done"
    /\ i <= Len(handles) /\ j <= Len(handles)
    /\ \E k \in 1..Len(lr.val) : lr.val[k].clustername = handles[i].cluster
    /\ \E k \in 1..Len(lr.val) : lr.val[k].clustername = handles[j].cluster

Earlier(j, i) == BothListed(i, j) => PlaceOf(handles[j].cluster) < PlaceOf(handles[i].cluster)

\* C18 as stated, for the first two list calls: when the second is answered
\* while the first still waits for its answer, its ListResponse comes before
\* the first's in the result.
C18_ArrivalOrder == [](Answered(2) /\ Waiting(1) => []Earlier(2, 1))

InClustersetOrder(names) ==
    \A k, l \in 1..Len(names) :
        k < l => TargetNamed(names[k]) < TargetNamed(names[l])

\* C18: the ListResponses are in the order of the clusters of the clusterset,
\* whatever the order in which the list calls were answered: the list tasks
\* are spawned in that order and their results are taken in handle order.
C18_ClustersetOrder ==
    /\ pc \in {"listing", "done"} =>
          InClustersetOrder([i \in 1..Len(handles) |-> handles[i].cluster])
    /\ pc = "done" =>
          InClustersetOrder([k \in 1..Len(lr.val) |-> lr.val[k].clustername])

\* The third list call is answered first, the first one last; all succeed.
C18_Witness ==
    /\ pc = "listing"
    /\ Len(handles) = 3
    /\ handles[1].pos = "listing"
    /\ handles[2].pos = "listing"
    /\ IsListed(handles[3])
    /\ CollectResponses(handles) = <<[clustername |-> NameOf(3), object_list |-> ObjectList(NameOf(3))]>>

\* The coordinates of a target, read against the kubeconfig file.
KubeClusters == {KubeconfigFile.clusters[i] : i \in 1..Len(KubeconfigFile.clusters)}
KubeContexts == {KubeconfigFile.contexts[i] : i \in 1..Len(KubeconfigFile.contexts)}
ServerOf(cluster_name) ==
    {e.cluster.val.server.val :
        e \in {e \in KubeClusters : /\ e.name = cluster_name
                                    /\ e.cluster.tag = "Some"
                                    /\ e.cluster.val.server.tag = "Some"}}
ClusterOfContext(context_name) ==
    {e.context.val.cluster :
        e \in {e \in KubeContexts : e.name = context_name /\ e.context.tag = "Some"}}
NeitherSet(c) == c.cluster = None /\ c.context = None
ClusterWithoutServer(c) == c.cluster # None /\ ServerOf(c.cluster.val) = {}
ContextWithoutServer(c) ==
    /\ c.cluster = None
    /\ c.context # None
    /\ \A cluster_name \in ClusterOfContext(c.context.val) : ServerOf(cluster_name) = {}
Coordinates == UNION {{list[i] : i \in DOMAIN list} : list \in ClusterLists}
Rejected == {c \in Coordinates : NeitherSet(c) \/ ClusterWithoutServer(c) \/ ContextWithoutServer(c)}
BadCoords(t) == clusters[t] \in Rejected
HasResponse(t) == \E k \in 1..Len(lr.val) : lr.val[k].clustername = NameOf(t)

\* C19: a target whose cluster and context are both unset, whose cluster or
\* context is not in the kubeconfig, or whose cluster entry has no server,
\* fails at its endpoint and nowhere else: no cache is read and no connection
\* made for it, it has no client, no list call and no ListResponse; the call
\* has not failed; and every other target whose stages all succeeded is in
\* the result.
C19_BadCoordinatesSkipped ==
    \A t \in Targets :
        /\ (task[t].pos \notin {"none", "spawned"}) =>
              (BadCoords(t) <=> stage[t].endpoint = "err")
        /\ (BadCoords(t) /\ task[t].pos \notin {"none", "spawned"}) =>
              /\ task[t].pos = "returned" /\ ~IsOk(task[t].result)
              /\ stage[t] = [Blank EXCEPT !.endpoint = "err"]
              /\ disk[t] = None /\ server[t] = None
              /\ pc # "failed"
              /\ \A i \in 1..Len(kubeclients) : kubeclients[i][1] # NameOf(t)
              /\ ~ListIssued(t)
              /\ pc = "done" =>
                    /\ IsOk(lr)
                    /\ ~HasResponse(t)
                    /\ \A s \in Targets : EveryStageSucceeded(s) => HasResponse(s)

\* The first target names a cluster that the kubeconfig does not have (and
\* a context that it has); the second and the third are listed.
C19_Witness ==
    /\ pc = "done"
    /\ Len(clusters) = 3
    /\ clusters[1].cluster = Some(<<"unknown", 0>>)
    /\ clusters[1].context = Some(<<"ctx", 1>>)
    /\ stage[1].endpoint = "err"
    /\ lr = Ok(<<[clustername |-> NameOf(2), object_list |-> ObjectList(NameOf(2))],
                 [clustername |-> NameOf(3), object_list |-> ObjectList(NameOf(3))]>>)

\* The stage a target's pipeline is at.
Failed(t) == StageFailed(t)
Listed(t) == stage[t].list = "ok"
ConnectionEstablished(t) == stage[t].connect = "ok"
CacheRead(t) == disk[t] # None \/ stage[t].cache = "panic"
Rank(t) == IF Listed(t) THEN 3
           ELSE IF Resolved(t) THEN 2
           ELSE IF ConnectionEstablished(t) THEN 1
           ELSE 0

HandlesOf(t) == {i \in 1..Len(handles) : handles[i].cluster = NameOf(t)}
Attempted(t, s) == stage[t][s] # NoStage

\* C21: a stage that has come to a result is not attempted again: no step
\* answers a target's connection, live discovery or list call a second time,
\* the outcome that was recorded stays, a target has at most one list task,
\* and a target that failed a stage takes no further step.
C21_NoRetry ==
    /\ [](\A t \in Targets : Cardinality(HandlesOf(t)) <= 1)
    /\ [][\A t \in Targets :
             /\ Attempted(t, "connect") => ~CreateClientConnected(t)
             /\ Attempted(t, "live") => ~CreateClientDiscovered(t)
             /\ Attempted(t, "list") => \A i \in HandlesOf(t) : ~ListAnswered(i)
             /\ \A s \in DOMAIN Blank : Attempted(t, s) => stage'[t][s] = stage[t][s]
             /\ StageFailed(t) =>
                   /\ ~CreateClientStart(t) /\ ~CreateClientConnected(t) /\ ~CreateClientDiscovered(t)
                   /\ \A i \in HandlesOf(t) : ~ListAnswered(i)
                   /\ stage'[t] = stage[t]]_vars

\* After the call: one target failed its connection, one its live discovery
\* and one its list call; none went on to a later stage.
C21_Witness ==
    /\ pc = "done"
    /\ Len(clusters) = 3
    /\ stage[1].connect = "err" /\ stage[1].live = NoStage /\ stage[1].list = NoStage
    /\ stage[2].live = "err" /\ stage[2].list = NoStage
    /\ stage[3].list = "panic"

Ended(h) == h.pos \in {"returned", "panicked"}

\* C22: when list has returned, every create_client task and every list task
\* has ended, every target is listed or has failed, and no later step changes
\* the result, a task or a stage; try_new returns only when every
\* create_client task has ended.
C22_AllJoined ==
    /\ [](pc \in {"created", "listing", "done"} => \A t \in Targets : Ended(task[t]))
    /\ [](pc = "done" =>
             /\ \A i \in 1..Len(handles) : Ended(handles[i])
             /\ \A t \in Targets : Listed(t) \/ Failed(t)
             /\ \A t \in Targets : ~ENABLED CreateClientStart(t)
                                   /\ ~ENABLED CreateClientConnected(t)
                                   /\ ~ENABLED CreateClientDiscovered(t)
             /\ \A i \in 1..Len(handles) : ~ENABLED ListAnswered(i))
    /\ [][pc = "done" => lr' = lr /\ task' = task /\ handles' = handles /\ stage' = stage]_vars

\* The call has returned with the second target's objects; the first
\* target's list task panicked and the third's request failed.
C22_Witness ==
    /\ pc = "done"
    /\ Len(handles) = 3
    /\ handles[1].pos = "panicked"
    /\ IsListed(handles[2])
    /\ handles[3].response = Err("request")
    /\ Len(lr.val) = 1

ClientsOf(t) ==
    LET Mine(c) == c[1] = NameOf(t)
    IN  SelectSeq(kubeclients, Mine)

RECURSIVE IsSubsequence(_, _)
IsSubsequence(s, t) ==
    IF s = <<>> THEN TRUE
    ELSE IF t = <<>> THEN FALSE
    ELSE IF Head(s) = Head(t) THEN IsSubsequence(Tail(s), Tail(t))
    ELSE IsSubsequence(s, Tail(t))

TargetNames == [t \in 1..Len(clusters) |-> clusters[t].name]

\* C24: the cluster names of the ListResponses that list returns are a
\* subsequence of the names of the clusters given to try_new, and so are the
\* names of the clients that try_new returns, whatever the order in which the
\* tasks ended.
C24_Subsequence ==
    /\ pc \in {"created", "listing", "done"} =>
          IsSubsequence([k \in 1..Len(kubeclients) |-> kubeclients[k][1]], TargetNames)
    /\ pc = "done" =>
          /\ IsSubsequence([k \in 1..Len(lr.val) |-> lr.val[k].clustername], TargetNames)
          /\ \A t \in Targets :
                Cardinality({k \in 1..Len(lr.val) : lr.val[k].clustername = NameOf(t)})
                   = IF Listed(t) THEN 1 ELSE 0

\* The second of three targets failed; the first and the third are returned,
\* in that order.
C24_Witness ==
    /\ pc = "done"
    /\ Len(clusters) = 3
    /\ Failed(2)
    /\ Len(lr.val) = 2
    /\ lr.val[1].clustername = NameOf(1)
    /\ lr.val[2].clustername = NameOf(3)

Untouched(t) ==
    /\ task[t] = NotSpawned
    /\ stage[t] = Blank
    /\ disk[t] = None
    /\ server[t] = None

\* C25: when the call has failed, which is on the read of the kubeconfig, no
\* task was spawned, no cache was read and no request was sent for any
\* target, and nothing was returned; once a task is spawned the call does not
\* fail, and what list returns is Ok, however many targets failed.
C25_FailsOnlyOnKubeconfig ==
    /\ pc = "failed" =>
          /\ \A t \in Targets : Untouched(t)
          /\ kubeclients = <<>> /\ handles = <<>> /\ lr = None
    /\ (\E t \in Targets : ~Untouched(t)) => pc \in {"creating", "created", "listing", "done"}
    /\ pc = "done" => IsOk(lr)
    /\ lr # None => pc = "done"

\* The kubeconfig could not be read for a call with three targets.
C25_Witness ==
    /\ pc = "failed"
    /\ Len(clusters) = 3
    /\ \A t \in Targets : Untouched(t)
    /\ lr = None
(***************************************************************************)
(* The cache path against the live path                                    *)
(***************************************************************************)
Served(catalog) ==
    UNION {{Exposed(g.resources[j].ar, g.resources[j].caps.scope) : j \in 1..Len(g.resources)} :
              g \in {catalog.groups[i] : i \in 1..Len(catalog.groups)}}
Cached(dir) ==
    LET read == new_from_default_cache(dir)
    IN  IF IsOk(read)
        THEN {Exposed(read.val.resources[k].api_resource, read.val.resources[k].scope) :
                 k \in 1..Len(read.val.resources)}
        ELSE {}
\* The cache directory holds what the server serves and nothing else: the
\* same resources under the same groupVersion, with the same names and scope.
IsSnapshot(dir, catalog) ==
    /\ new_from_default_cache(dir).tag = "Ok"
    /\ Cached(dir) = Served(catalog)
    /\ Served(catalog) # {}
IsKindOrPlural(catalog, n) == MatchingGroups(catalog.groups, n) # {}

\* C26 as stated: with a cache that is a snapshot of the server's catalog, a
\* kind or plural name resolves in the cache to the descriptor and the scope
\* that resolve_api_resource gives for the catalog.
C26_PathsAgree ==
    (found # None /\ IsSnapshot(tree, api_server) /\ IsKindOrPlural(api_server, resource)) =>
        LET live == resolve_api_resource(api_server, resource)
        IN  /\ IsOk(found)
            /\ live # None
            /\ found.val = <<live.val.ar, live.val.caps.scope>>

QualifiedVersion(ar) == IF ar.group = <<>> THEN ar.version ELSE ar.group \o <<"/">> \o ar.version

\* C27 as stated: every descriptor that get_api_resources built from the
\* files of the cache directory has group + "/" + version as its api_version,
\* or version alone when its group is empty.
C27_DescriptorConsistent ==
    (discovery # None /\ IsOk(discovery)) =>
        \A k \in 1..Len(discovery.val.resources) :
            discovery.val.resources[k].api_resource.api_version
               = QualifiedVersion(discovery.val.resources[k].api_resource)

\* C28: applied to the key it derived, parse_kube_url_to_discovery returns
\* that key: the key holds no scheme, no "/" and no character that the
\* regular expression replaces.
C28_KeyIdempotent ==
    previous # None =>
        /\ host_path = previous.val
        /\ IsOk(host_path)
        /\ CharsOf(host_path.val) \subseteq ReClass \ {"/"}

\* The key of https://a.:443/ was derived, then the key of that key.
C28_Witness ==
    /\ url = HostUrl(Https, <<"a", ".">>, <<"4", "4", "3">>, <<"/">>)
    /\ previous = Some(Ok(<<"a", ".", "_", "4", "4", "3">>))
    /\ host_path = Ok(<<"a", ".", "_", "4", "4", "3">>)

HasActive(conf) ==
    \E i \in 1..Len(conf.clustersets) : conf.clustersets[i].name = conf.current_clusterset
FirstActive(conf, i) ==
    /\ conf.clustersets[i].name = conf.current_clusterset
    /\ \A j \in 1..(i - 1) : conf.clustersets[j].name # conf.current_clusterset

\* C29: on a config that has a clusterset named current_clusterset,
\* set_namespace(ns) returns Ok and active_namespace() then returns ns;
\* current_clusterset, the name and the cluster list of every clusterset and
\* everything of every clusterset but the active one are as before.  On a
\* config that has none it returns an error and the config is as before, and
\* active_clusterset() and active_namespace() return an error.
C29_SetNamespaceFrame ==
    previous # None =>
        LET old == previous.val
        IN  IF HasActive(old)
            THEN /\ IsOk(set_result)
                 /\ active_namespace(config) = Ok(ns_arg)
                 /\ config.current_clusterset = old.current_clusterset
                 /\ config.api_version = old.api_version
                 /\ Len(config.clustersets) = Len(old.clustersets)
                 /\ \A i \in 1..Len(old.clustersets) :
                       /\ config.clustersets[i].name = old.clustersets[i].name
                       /\ config.clustersets[i].clusters = old.clustersets[i].clusters
                       /\ ~FirstActive(old, i) => config.clustersets[i] = old.clustersets[i]
            ELSE /\ set_result # None /\ ~IsOk(set_result)
                 /\ config = old
                 /\ ~IsOk(active_clusterset(config))
                 /\ ~IsOk(active_namespace(config))

\* Two clustersets are named dev; the namespace of the first was set to prod
\* and the second one's is still team.
C29_Witness ==
    /\ previous # None
    /\ Len(config.clustersets) = 3
    /\ config.current_clusterset = <<"d", "e", "v">>
    /\ previous.val.clustersets[1].namespace = <<"d", "e", "f", "a", "u", "l", "t">>
    /\ config.clustersets[1].namespace = <<"p", "r", "o", "d">>
    /\ config.clustersets[2].name = <<"o", "p", "s">>
    /\ config.clustersets[3] = [name |-> <<"d", "e", "v">>, namespace |-> <<"t", "e", "a", "m">>, clusters |-> <<>>]
    /\ set_result = Ok(<<>>)

====
